---- MODULE Spec2Model ----
(***************************************************************************)
(* Excelbot: spreadsheet loader (data_processor.py), canned data queries,  *)
(* and the Streamlit session around them (app.py).                         *)
(*                                                                         *)
(* Text is modelled as a sequence of one-character strings, so that        *)
(* str.strip, str.lower, str.isdigit and the two re.sub calls of the       *)
(* normalizer are computed character by character, as Python computes      *)
(* them.  Two tokens, "U+00C9" and "U+00E9", stand for the non-ASCII       *)
(* letters E-acute and e-acute (one character each).                       *)
(***************************************************************************)
EXTENDS Integers, Sequences, FiniteSets, TLC

VARIABLES
    raw_headers,    \* df.columns as handed to _handle_missing_column_names
    new_columns,    \* the list _handle_missing_column_names builds
    normalized,     \* the list _normalize_column_names returns
    renormalized,   \* repair + canonicalization applied to `normalized`
    recanonical,    \* canonicalization alone applied to `normalized`
    norm_pc,        \* position in the normalizer pipeline
    self_original_file,  \* the file handed to DataProcessor(...)
    loaded,         \* "new", then "ok" or "failed" (the constructor raised)
    self_df,        \* DataProcessor.df
    self_column_mapping,  \* DataProcessor.column_mapping
    query_operation,    \* the operation handed to execute_data_query: <<>> or <<operation>>
    query_result,       \* what execute_data_query returned: <<>> or <<result>>
    plot_code,          \* the code handed to execute_plot_code: <<>> or <<code>>
    plot_df,            \* the table handed to execute_plot_code, as it was at the call
    plot_result,        \* the triple execute_plot_code returned: <<>> or <<result>>
    sys_stdout,         \* the stream sys.stdout is bound to
    plot_effects,       \* what the executed snippet reached outside the namespace
    llm_model,          \* LLMHandler.model: "none" or "gemini"
    llm_log,            \* the calls of process_query so far, each with what it returned
    ask_result,         \* what process_user_query returned: <<>> or <<result>>
    widget_file,        \* value of st.file_uploader: <<>> (None) or <<file>>
    st_data_processor,  \* st.session_state.data_processor: <<>> (None) or <<object>>
    st_data_uploaded,   \* st.session_state.data_uploaded
    st_chat_history,    \* st.session_state.chat_history
    last_upload         \* outcome of the most recent DataProcessor(...) call of main:
                        \* "none", "ok" or "failed"

norm_vars == <<raw_headers, new_columns, normalized, renormalized, recanonical, norm_pc>>

load_vars == <<self_original_file, loaded, self_df, self_column_mapping>>

session_vars == <<widget_file, st_data_processor, st_data_uploaded, st_chat_history,
                  last_upload>>

query_vars == <<query_operation, query_result>>

plot_vars == <<plot_code, plot_df, plot_result, sys_stdout, plot_effects>>

llm_vars == <<llm_model, llm_log, ask_result>>

vars == <<norm_vars, load_vars, query_vars, plot_vars, llm_vars, session_vars>>

(***************************************************************************)
(* Bounds                                                                  *)
(***************************************************************************)
\* Size of a header row: characters of all header cells, plus one per cell.
MaxRowChars == 4

\* data rows of a queried table
MaxRows == 2

\* query turns kept in the chat history
MaxTurns == 1

\* Calls of process_query in one behaviour.
MaxCalls == 2

(***************************************************************************)
(* Characters                                                              *)
(***************************************************************************)
LowerLetters ==
    <<"a","b","c","d","e","f","g","h","i","j","k","l","m",
      "n","o","p","q","r","s","t","u","v","w","x","y","z">>

UpperLetters ==
    <<"A","B","C","D","E","F","G","H","I","J","K","L","M",
      "N","O","P","Q","R","S","T","U","V","W","X","Y","Z">>

DigitChars == <<"0","1","2","3","4","5","6","7","8","9">>

SeqRange(s) == { s[i] : i \in 1..Len(s) }

AsciiLower == SeqRange(LowerLetters)
AsciiUpper == SeqRange(UpperLetters)
Digits     == SeqRange(DigitChars)

\* the two non-ASCII letters of the model, upper and lower case
NonAsciiUpper == "U+00C9"
NonAsciiLower == "U+00E9"

IsDigitChar(c) == c \in Digits

\* re's \w on str patterns is Unicode-aware: letters of any script, digits, "_"
WordChars == AsciiLower \cup AsciiUpper \cup Digits \cup {"_", NonAsciiUpper, NonAsciiLower}

IsWordChar(c) == c \in WordChars

\* the spec's canonical alphabet [a-z0-9_]
CanonicalChars == AsciiLower \cup Digits \cup {"_"}

IsCanonicalChar(c) == c \in CanonicalChars

LowerOf ==
    [c \in AsciiUpper \cup {NonAsciiUpper} |->
        IF c = NonAsciiUpper THEN NonAsciiLower
        ELSE LowerLetters[CHOOSE i \in 1..Len(UpperLetters) : UpperLetters[i] = c]]

UpperOf ==
    [c \in AsciiLower \cup {NonAsciiLower} |->
        IF c = NonAsciiLower THEN NonAsciiUpper
        ELSE UpperLetters[CHOOSE i \in 1..Len(LowerLetters) : LowerLetters[i] = c]]

LowerChar(c) == IF c \in DOMAIN LowerOf THEN LowerOf[c] ELSE c

UpperChar(c) == IF c \in DOMAIN UpperOf THEN UpperOf[c] ELSE c

(***************************************************************************)
(* Python str / re operations used by the loader                           *)
(***************************************************************************)
RECURSIVE LStrip(_, _)
LStrip(s, chars) ==
    IF s = <<>> THEN <<>>
    ELSE IF Head(s) \in chars THEN LStrip(Tail(s), chars) ELSE s

RECURSIVE RStrip(_, _)
RStrip(s, chars) ==
    IF s = <<>> THEN <<>>
    ELSE IF s[Len(s)] \in chars THEN RStrip(SubSeq(s, 1, Len(s) - 1), chars) ELSE s

\* the whitespace str.strip() removes
Whitespace == {" "}

\* str.strip()
Strip(s) == RStrip(LStrip(s, Whitespace), Whitespace)

\* str.strip('_')
StripUnderscores(s) == RStrip(LStrip(s, {"_"}), {"_"})

\* str.lower()
Lower(s) == [i \in 1..Len(s) |-> LowerChar(s[i])]

\* str.upper()
Upper(s) == [i \in 1..Len(s) |-> UpperChar(s[i])]

\* str.isdigit()
IsDigit(s) == Len(s) > 0 /\ \A i \in 1..Len(s) : IsDigitChar(s[i])

\* str.startswith(p)
StartsWith(s, p) == Len(s) >= Len(p) /\ SubSeq(s, 1, Len(p)) = p

\* re.sub(r'[^\w]', '_', s)
SubNonWord(s) == [i \in 1..Len(s) |-> IF IsWordChar(s[i]) THEN s[i] ELSE "_"]

\* re.sub(r'_+', '_', s)
RECURSIVE SubUnderscoreRuns(_)
SubUnderscoreRuns(s) ==
    IF Len(s) < 2 THEN s
    ELSE IF s[1] = "_" /\ s[2] = "_" THEN SubUnderscoreRuns(Tail(s))
    ELSE <<s[1]>> \o SubUnderscoreRuns(Tail(s))

\* str(n) for n >= 0
RECURSIVE IntToStr(_)
IntToStr(n) ==
    IF n < 10 THEN <<DigitChars[n + 1]>>
    ELSE IntToStr(n \div 10) \o <<DigitChars[(n % 10) + 1]>>

(***************************************************************************)
(* DataProcessor._handle_missing_column_names                              *)
(***************************************************************************)
UnnamedPrefix == <<"U","n","n","a","m","e","d",":">>

NanText  == <<"n","a","n">>
NaNText  == <<"N","a","N">>
NoneText == <<"N","o","n","e">>

\* the f-string f'Column {i + 1}', i the 0-based position
ColumnPlaceholder(i) == <<"C","o","l","u","m","n"," ">> \o IntToStr(i + 1)

\* the condition of the if at data_processor.py:44-47, on the stripped text
IsMissingName(col_str) ==
    \/ StartsWith(col_str, UnnamedPrefix)
    \/ col_str \in {<<>>, NanText, NaNText, NoneText}
    \/ IsDigit(col_str)
    \/ Len(col_str) = 0

\* one iteration of the loop: position i (0-based), header col
RepairName(i, col) ==
    LET col_str == Strip(col)
    IN  IF IsMissingName(col_str) THEN ColumnPlaceholder(i) ELSE col_str

handle_missing_column_names(columns) ==
    [p \in 1..Len(columns) |-> RepairName(p - 1, columns[p])]

(***************************************************************************)
(* DataProcessor._normalize_column_names                                   *)
(***************************************************************************)
\* strip('_') moved ahead of the two substitutions
NormalizeNameStripFirst(col) ==
    LET col_str  == Strip(col)
        stripped == StripUnderscores(Lower(col_str))
    IN  SubUnderscoreRuns(SubNonWord(stripped))

NormalizeName(col) ==
    LET col_str        == Strip(col)
        col_normalized == SubNonWord(Lower(col_str))
        collapsed      == SubUnderscoreRuns(col_normalized)
    IN  StripUnderscores(collapsed)

normalize_column_names(columns) ==
    [p \in 1..Len(columns) |-> NormalizeName(columns[p])]

(***************************************************************************)
(* Header rows of the model                                                *)
(***************************************************************************)
HeaderAlphabet == {"a", "A", "1", " ", "_", "-"}

RECURSIVE TextsOfLen(_)
TextsOfLen(n) ==
    IF n = 0 THEN {<<>>}
    ELSE { <<c>> \o t : c \in HeaderAlphabet, t \in TextsOfLen(n - 1) }

\* every row of header cells whose cost (characters + one per cell) is at most n
RECURSIVE RowsWithin(_)
RowsWithin(n) ==
    IF n <= 0 THEN {<<>>}
    ELSE {<<>>} \cup
         UNION { { <<t>> \o r : t \in TextsOfLen(k), r \in RowsWithin(n - k - 1) }
                 : k \in 0..(n - 1) }

\* headers longer than the bound that the repair step names explicitly, and a
\* non-ASCII header
MarkerTexts ==
    { UnnamedPrefix \o <<" ", "0">>,
      UnnamedPrefix \o <<" ", "1">>,
      NanText, NaNText, NoneText,
      <<"N","A","N">>, <<"n","o","n","e">>,
      <<"U+00C9", "t", "U+00E9">>,
      <<"T","o","t","a","l"," ","S","c","o","r","e">> }

MarkerRows ==
    { <<m>> : m \in MarkerTexts }
    \cup { <<t, m>> : t \in TextsOfLen(1), m \in MarkerTexts }
    \cup { <<m, m>> : m \in MarkerTexts }

HeaderRows == RowsWithin(MaxRowChars) \cup MarkerRows

(***************************************************************************)
(* Cells, columns and tables (pandas DataFrame)                            *)
(***************************************************************************)
NumCell(n) == [t |-> "num", n |-> n, s |-> <<>>]
StrCell(s) == [t |-> "str", n |-> 0, s |-> s]
TsCell(n)  == [t |-> "ts",  n |-> n, s |-> <<>>]
NaNCell    == [t |-> "nan", n |-> 0, s |-> <<>>]

IsNa(cell) == cell.t = "nan"

\* column p of a table, as the sequence of its cells
ColumnCells(df, p) == [r \in 1..Len(df.rows) |-> df.rows[r][p]]

\* positions of the columns labelled `name`
Positions(df, name) == { p \in 1..Len(df.columns) : df.columns[p] = name }

HasColumn(df, name) == Positions(df, name) # {}

HasDuplicateLabels(columns) ==
    \E p, q \in 1..Len(columns) : p # q /\ columns[p] = columns[q]

\* the dtype pandas infers for a column of parsed cells
InferDtype(cells) ==
    IF Len(cells) = 0 THEN "object"
    ELSE IF \E r \in 1..Len(cells) : cells[r].t = "str" THEN "object"
    ELSE IF \A r \in 1..Len(cells) : cells[r].t = "ts" \/ cells[r].t = "nan" THEN
        IF \E r \in 1..Len(cells) : cells[r].t = "ts" THEN "datetime64[ns]" ELSE "float64"
    ELSE IF \E r \in 1..Len(cells) : cells[r].t = "ts" THEN "object"
    ELSE IF \E r \in 1..Len(cells) : cells[r].t = "nan" THEN "float64"
    ELSE "int64"

EmptyDataFrame == [columns |-> <<>>, dtypes |-> <<>>, rows |-> <<>>]

(***************************************************************************)
(* pd.read_excel(uploaded_file, engine='openpyxl')                         *)
(* A file is [readable, header, data]: the header cells as text (an empty  *)
(* text is a blank cell) and the data rows.                                *)
(***************************************************************************)
Count(seq, x) == Cardinality({ i \in 1..Len(seq) : seq[i] = x })

\* pandas names a blank header cell at 0-based position i "Unnamed: i"
UnnamedMarker(i) == UnnamedPrefix \o <<" ">> \o IntToStr(i)

\* pandas' loop that makes one header unique: while the name was seen, count
\* the sighting and append ".<count>"; `seen` lists every name registered so far
RECURSIVE DedupName(_, _)
DedupName(col, seen) ==
    LET cur_count == Count(seen, col)
    IN  IF cur_count > 0
        THEN DedupName(col \o <<".">> \o IntToStr(cur_count), Append(seen, col))
        ELSE [col |-> col, seen |-> Append(seen, col)]

RECURSIVE DedupNames(_, _, _)
DedupNames(names, seen, out) ==
    IF names = <<>> THEN out
    ELSE LET d == DedupName(Head(names), seen)
         IN  DedupNames(Tail(names), d.seen, Append(out, d.col))

\* the column labels of the frame read_excel returns
ReadHeaders(header) ==
    DedupNames([p \in 1..Len(header) |->
                    IF header[p] = <<>> THEN UnnamedMarker(p - 1) ELSE header[p]],
               <<>>, <<>>)

read_excel(f) ==
    IF ~f.readable
    THEN [raised |-> TRUE, df |-> EmptyDataFrame]
    ELSE [raised |-> FALSE,
          df |-> [columns |-> ReadHeaders(f.header),
                  dtypes  |-> [p \in 1..Len(f.header) |->
                                  InferDtype([r \in 1..Len(f.data) |-> f.data[r][p]])],
                  rows    |-> f.data]]

(***************************************************************************)
(* DataProcessor._clean_data                                               *)
(***************************************************************************)
\* str in sub-string test: `sub in s`
Contains(s, sub) ==
    \E i \in 0..(Len(s) - Len(sub)) : SubSeq(s, i + 1, i + Len(sub)) = sub

\* int(text) for a text of decimal digits
RECURSIVE ParseDigits(_)
ParseDigits(s) ==
    IF s = <<>> THEN 0
    ELSE 10 * ParseDigits(SubSeq(s, 1, Len(s) - 1))
         + ((CHOOSE d \in 1..10 : DigitChars[d] = s[Len(s)]) - 1)

\* pd.to_numeric(errors='coerce') on one cell: numbers stay, digit texts are
\* parsed, every other text and every missing cell becomes NaN
ToNumericCell(cell) ==
    IF cell.t = "num" THEN cell
    ELSE IF cell.t = "str" /\ IsDigit(Strip(cell.s)) THEN NumCell(ParseDigits(Strip(cell.s)))
    ELSE NaNCell

\* pd.to_datetime(errors='coerce') on one cell
ToDatetimeCell(cell) ==
    IF cell.t = "ts" THEN cell
    ELSE IF cell.t = "num" THEN TsCell(cell.n)
    ELSE IF cell.t = "str" /\ IsDigit(Strip(cell.s)) THEN TsCell(ParseDigits(Strip(cell.s)))
    ELSE NaNCell

NotNaCount(cells) == Cardinality({ r \in 1..Len(cells) : ~IsNa(cells[r]) })

\* data_processor.py:84, (notna().sum() / len(df)) > 0.8, in exact arithmetic
ConvertsToNumeric(numeric_series, n_rows) ==
    5 * NotNaCount(numeric_series) > 4 * n_rows

\* the test of the first loop, data_processor.py:79-84
IsConvertedToNumeric(dtype, cells) ==
    LET numeric_series == [r \in 1..Len(cells) |-> ToNumericCell(cells[r])]
    IN  /\ dtype = "object"
        /\ ~(\A r \in 1..Len(cells) : IsNa(numeric_series[r]))
        /\ ConvertsToNumeric(numeric_series, Len(cells))

\* the test of the second loop, data_processor.py:89
DateText == <<"d","a","t","e">>
TimeText == <<"t","i","m","e">>

IsDateColumn(col) ==
    Contains(Lower(col), DateText) \/ Contains(Lower(col), TimeText)

\* the cells and dtype one column ends with after both loops
CleanColumn(col, dtype, cells) ==
    LET numeric == IsConvertedToNumeric(dtype, cells)
        cells1  == IF numeric
                   THEN [r \in 1..Len(cells) |-> ToNumericCell(cells[r])]
                   ELSE cells
        dtype1  == IF numeric THEN InferDtype(cells1) ELSE dtype
    IN  IF IsDateColumn(col)
        THEN [cells |-> [r \in 1..Len(cells1) |-> ToDatetimeCell(cells1[r])],
              dtype |-> "datetime64[ns]"]
        ELSE [cells |-> cells1, dtype |-> dtype1]

\* the loops walking the columns by position: a duplicated label no longer raises
clean_data_by_position(df) ==
    LET cleaned == [p \in 1..Len(df.columns) |->
                       CleanColumn(df.columns[p], df.dtypes[p], ColumnCells(df, p))]
    IN  [raised |-> FALSE,
         df |-> [columns |-> df.columns,
                 dtypes  |-> [p \in 1..Len(df.columns) |-> cleaned[p].dtype],
                 rows    |-> [r \in 1..Len(df.rows) |->
                                 [p \in 1..Len(df.columns) |-> cleaned[p].cells[r]]]]]

\* df[col] of a duplicated label is a DataFrame, and `.dtype` of a DataFrame
\* raises AttributeError at data_processor.py:79
clean_data(df) ==
    IF HasDuplicateLabels(df.columns)
    THEN [raised |-> TRUE, df |-> df]
    ELSE LET cleaned == [p \in 1..Len(df.columns) |->
                            CleanColumn(df.columns[p], df.dtypes[p], ColumnCells(df, p))]
         IN  [raised |-> FALSE,
              df |-> [columns |-> df.columns,
                      dtypes  |-> [p \in 1..Len(df.columns) |-> cleaned[p].dtype],
                      rows    |-> [r \in 1..Len(df.rows) |->
                                      [p \in 1..Len(df.columns) |-> cleaned[p].cells[r]]]]]

(***************************************************************************)
(* DataProcessor._load_and_process_excel, _create_column_mapping, __init__ *)
(***************************************************************************)
\* raised: the function ends in `raise Exception("Error loading Excel file: ...")`
load_and_process_excel(uploaded_file) ==
    LET rd == read_excel(uploaded_file)
    IN  IF rd.raised THEN [raised |-> TRUE, df |-> EmptyDataFrame]
        ELSE LET named == [rd.df EXCEPT
                              !.columns = normalize_column_names(
                                              handle_missing_column_names(rd.df.columns))]
                 cl == clean_data(named)
             IN  IF cl.raised THEN [raised |-> TRUE, df |-> EmptyDataFrame]
                 ELSE [raised |-> FALSE, df |-> cl.df]

\* dict(zip(keys, values)): one entry per distinct key, the last pair winning
DictZip(keys, values) ==
    LET n == IF Len(keys) < Len(values) THEN Len(keys) ELSE Len(values)
        last(k) == CHOOSE p \in 1..n :
                       keys[p] = k /\ \A q \in 1..n : keys[q] = k => q <= p
    IN  [k \in { keys[p] : p \in 1..n } |-> values[last(k)]]

\* the second read taking the first column for an index: labels one position off
create_column_mapping_shifted(original_file, df) ==
    LET original_cols == read_excel(original_file).df.columns
    IN  DictZip(df.columns, SubSeq(original_cols, 2, Len(original_cols)))

\* the second read of the same file, zipped against the table's labels
create_column_mapping(original_file, df) ==
    LET original_cols == read_excel(original_file).df.columns
    IN  DictZip(df.columns, original_cols)

\* DataProcessor(uploaded_file): raised, or the object's fields
DataProcessor(uploaded_file) ==
    LET ld == load_and_process_excel(uploaded_file)
    IN  IF ld.raised
        THEN [raised |-> TRUE, df |-> EmptyDataFrame, column_mapping |-> <<>>]
        ELSE [raised |-> FALSE, df |-> ld.df,
              column_mapping |-> create_column_mapping(uploaded_file, ld.df)]

(***************************************************************************)
(* Values compared by the canned operations                                *)
(***************************************************************************)
\* characters in code-point order, as far as the model uses them
OrderedChars ==
    <<" ", "(", "-", ".">> \o DigitChars \o UpperLetters \o <<"_">> \o LowerLetters

CharRank == [c \in SeqRange(OrderedChars) |->
                CHOOSE i \in 1..Len(OrderedChars) : OrderedChars[i] = c]

\* Python's str < str
RECURSIVE TextLess(_, _)
TextLess(a, b) ==
    IF b = <<>> THEN FALSE
    ELSE IF a = <<>> THEN TRUE
    ELSE IF a[1] = b[1] THEN TextLess(Tail(a), Tail(b))
    ELSE CharRank[a[1]] < CharRank[b[1]]

\* a literal of a condition: a number, a text, or None
NumValue(n) == NumCell(n)
StrValue(s) == StrCell(s)
NoneValue   == NaNCell

\* the two operands can be ordered by <, >: same kind, neither missing
Comparable(cell, value) == cell.t = value.t /\ cell.t \in {"num", "str", "ts"}

CellEq(cell, value) ==
    /\ cell.t = value.t
    /\ cell.t # "nan"
    /\ cell.n = value.n
    /\ cell.s = value.s

CellLess(cell, value) ==
    /\ Comparable(cell, value)
    /\ IF cell.t = "str" THEN TextLess(cell.s, value.s) ELSE cell.n < value.n

\* str(x) of a cell of a column of the given dtype
CellText(cell, dtype) ==
    IF cell.t = "nan" THEN NanText
    ELSE IF cell.t = "str" THEN cell.s
    ELSE IF dtype = "float64" THEN IntToStr(cell.n) \o <<".", "0">>
    ELSE IntToStr(cell.n)

\* str(value) of a condition's literal
ValueText(value) ==
    IF value.t = "nan" THEN NoneText
    ELSE IF value.t = "str" THEN value.s
    ELSE IntToStr(value.n)

\* re.compile(pat) raises: the model's patterns fail on an unbalanced "("
PatternInvalid(pat) == \E i \in 1..Len(pat) : pat[i] = "("

\* re.search(pat, text, re.IGNORECASE) for patterns of literals and "."
RegexSearch(text, pat) ==
    \E off \in 0..(Len(text) - Len(pat)) :
        \A j \in 1..Len(pat) :
            pat[j] = "." \/ LowerChar(pat[j]) = LowerChar(text[off + j])

(***************************************************************************)
(* Results of the canned operations                                        *)
(***************************************************************************)
\* a DataFrame result: column labels, index labels and rows of cells
TableResult(columns, index, rows) ==
    [kind |-> "table", columns |-> columns, index |-> index, rows |-> rows]

\* pd.DataFrame()
EmptyResult == TableResult(<<>>, <<>>, <<>>)

\* None
NoneResult == [kind |-> "none", columns |-> <<>>, index |-> <<>>, rows |-> <<>>]

\* the operation raised
Raised == [kind |-> "raise", columns |-> <<>>, index |-> <<>>, rows |-> <<>>]

\* a statistic pandas computes, left unevaluated: func over the listed cells
AggCell(func, cells) == [t |-> "agg", n |-> Len(cells), s |-> <<func>>]

\* a parameter that is not of the type the code expects (an int for a list,
\* a list for a dict, ...)
Malformed == [kind |-> "malformed", items |-> <<>>]

ListOf(items) == [kind |-> "list", items |-> items]

NumericColumns(df) ==
    SelectSeq([p \in 1..Len(df.columns) |-> p],
              LAMBDA p : df.dtypes[p] \in {"int64", "float64"})

\* df.select_dtypes(include=[np.number]).columns.tolist()
NumericColumnNames(df) ==
    LET ps == NumericColumns(df) IN [k \in 1..Len(ps) |-> df.columns[ps[k]]]

\* the position of the column labelled name (labels of a loaded table are distinct)
ColumnIndex(df, name) == CHOOSE p \in 1..Len(df.columns) : df.columns[p] = name

(***************************************************************************)
(* DataProcessor._get_statistical_summary                                  *)
(***************************************************************************)
NumericStats == <<"count", "mean", "std", "min", "25%", "50%", "75%", "max">>
ObjectStats  == <<"count", "unique", "top", "freq">>

\* [col for col in columns if col in self.df.columns]
ValidColumns(df, columns) == SelectSeq(columns, LAMBDA col : HasColumn(df, col))

\* df[valid_columns].describe(): the numeric columns when there are any,
\* every column otherwise; one row per statistic
Describe(df, valid_columns) ==
    LET IsNumeric(col) == df.dtypes[ColumnIndex(df, col)] \in {"int64", "float64"}
        numeric == SelectSeq(valid_columns, IsNumeric)
        shown   == IF numeric # <<>> THEN numeric ELSE valid_columns
        stats   == IF numeric # <<>> THEN NumericStats ELSE ObjectStats
    IN  TableResult(shown,
                    [k \in 1..Len(stats) |-> stats[k]],
                    [k \in 1..Len(stats) |-> [c \in 1..Len(shown) |->
                        AggCell(stats[k], ColumnCells(df, ColumnIndex(df, shown[c])))]])

get_statistical_summary(df, columns) ==
    IF columns.kind = "malformed" THEN Raised
    ELSE LET requested == IF columns.items = <<>> THEN NumericColumnNames(df)
                          ELSE columns.items
             valid_columns == ValidColumns(df, requested)
         IN  IF valid_columns = <<>> THEN EmptyResult
             ELSE Describe(df, valid_columns)

(***************************************************************************)
(* DataProcessor._filter_data                                              *)
(***************************************************************************)
\* one condition of the mapping, after its two .get calls
Condition(operator, value) == [is_dict |-> TRUE, operator |-> operator, value |-> value]

\* a condition that is not a mapping
MalformedCondition == [is_dict |-> FALSE, operator |-> "==", value |-> NoneValue]

OrderingOperators == {">", "<", ">=", "<="}

\* pandas refuses to order the column against the literal: a numeric or
\* temporal column against a literal of another kind, or a text/mixed column
\* with a remaining non-missing cell of another kind than the literal
OrderingRaises(dtype, cells, value) ==
    /\ value.t # "nan"
    /\ IF dtype \in {"int64", "float64"} THEN value.t # "num"
       ELSE IF dtype = "datetime64[ns]" THEN value.t # "ts"
       ELSE \E r \in 1..Len(cells) : cells[r].t # "nan" /\ cells[r].t # value.t

\* the boolean mask entry of one cell under one operator
Keeps(operator, cell, dtype, value) ==
    CASE operator = "=="       -> CellEq(cell, value)
      [] operator = "!="       -> ~CellEq(cell, value)
      [] operator = ">"        -> CellLess(value, cell)
      [] operator = "<"        -> CellLess(cell, value)
      [] operator = ">="       -> CellLess(value, cell) \/ CellEq(cell, value)
      [] operator = "<="       -> CellLess(cell, value) \/ CellEq(cell, value)
      [] operator = "contains" -> RegexSearch(CellText(cell, dtype), ValueText(value))
      [] OTHER                 -> TRUE

\* the loop over conditions.items(): kept lists the surviving rows, in order
RECURSIVE FilterLoop(_, _, _, _)
FilterLoop(df, conditions, k, kept) ==
    IF k > Len(conditions) THEN [raised |-> FALSE, kept |-> kept]
    ELSE LET column    == conditions[k].column
             condition == conditions[k].condition
         IN  IF ~HasColumn(df, column) THEN FilterLoop(df, conditions, k + 1, kept)
             ELSE IF ~condition.is_dict THEN [raised |-> TRUE, kept |-> kept]
             ELSE LET p      == ColumnIndex(df, column)
                      dtype  == df.dtypes[p]
                      cells  == [i \in 1..Len(kept) |-> df.rows[kept[i]][p]]
                      raises ==
                          \/ /\ condition.operator \in OrderingOperators
                             /\ OrderingRaises(dtype, cells, condition.value)
                          \/ /\ condition.operator = "contains"
                             /\ PatternInvalid(ValueText(condition.value))
                  IN  IF raises THEN [raised |-> TRUE, kept |-> kept]
                      ELSE FilterLoop(df, conditions, k + 1,
                               SelectSeq(kept, LAMBDA r :
                                   Keeps(condition.operator, df.rows[r][p], dtype,
                                         condition.value)))

\* the rows numbered by kept, labelled with their original 0-based index
RowsResult(df, kept) ==
    TableResult(df.columns,
                [i \in 1..Len(kept) |-> kept[i] - 1],
                [i \in 1..Len(kept) |-> df.rows[kept[i]]])

filter_data(df, conditions) ==
    IF conditions.kind = "malformed" THEN Raised
    ELSE LET out == FilterLoop(df, conditions.items, 1, [r \in 1..Len(df.rows) |-> r])
         IN  IF out.raised THEN Raised ELSE RowsResult(df, out.kept)

(***************************************************************************)
(* DataProcessor._group_by_analysis                                        *)
(***************************************************************************)
CountLabel == <<"c","o","u","n","t">>

\* the order groupby sorts its keys in: numbers, then timestamps, then texts
KindRank(cell) == CASE cell.t = "num" -> 1 [] cell.t = "ts" -> 2 [] OTHER -> 3

KeyLess(a, b) ==
    IF a.t = b.t THEN CellLess(a, b) ELSE KindRank(a) < KindRank(b)

RECURSIVE SortedKeys(_)
SortedKeys(keys) ==
    IF keys = {} THEN <<>>
    ELSE LET m == CHOOSE k \in keys : \A o \in keys \ {k} : KeyLess(k, o)
         IN  <<m>> \o SortedKeys(keys \ {m})

\* the group keys: the distinct non-missing values of the column, sorted
\* (groupby drops the rows whose key is missing)
GroupKeys(cells) == SortedKeys({ cells[r] : r \in { q \in 1..Len(cells) : ~IsNa(cells[q]) } })

\* the rows of one group
GroupRows(df, p, key) == SelectSeq([r \in 1..Len(df.rows) |-> r],
                                   LAMBDA r : df.rows[r][p] = key)

RECURSIVE SumCells(_)
SumCells(cells) ==
    IF cells = <<>> THEN 0
    ELSE (IF Head(cells).t = "num" THEN Head(cells).n ELSE 0) + SumCells(Tail(cells))

\* one aggregated value of groupby(...)[agg_column].<agg_function>()
Aggregate(agg_function, dtype, cells) ==
    IF agg_function = "sum" THEN
        IF dtype \in {"int64", "float64"} THEN NumCell(SumCells(cells))
        ELSE AggCell("sum", cells)
    ELSE IF agg_function \in {"mean", "median"} THEN AggCell(agg_function, cells)
    ELSE NumCell(NotNaCount(cells))

\* mean and median reject a column that is not numeric
AggregateRaises(agg_function, dtype) ==
    agg_function \in {"mean", "median"} /\ dtype \notin {"int64", "float64"}

group_by_analysis(df, group_column, agg_column, agg_function) ==
    IF ~HasColumn(df, group_column) THEN EmptyResult
    ELSE LET p    == ColumnIndex(df, group_column)
             keys == GroupKeys(ColumnCells(df, p))
             agg  == IF agg_column # <<>> /\ ~HasColumn(df, agg_column)
                     THEN <<>> ELSE agg_column
         IN  IF agg # <<>> THEN
                 LET a     == ColumnIndex(df, agg)
                     dtype == df.dtypes[a]
                 IN  \* reset_index cannot insert the key column next to a
                     \* value column of the same name
                     IF agg = group_column \/ AggregateRaises(agg_function, dtype)
                     THEN Raised
                     ELSE TableResult(<<group_column, agg>>,
                              [k \in 1..Len(keys) |-> k - 1],
                              [k \in 1..Len(keys) |->
                                  LET rows == GroupRows(df, p, keys[k])
                                  IN  <<keys[k],
                                        Aggregate(agg_function, dtype,
                                            [i \in 1..Len(rows) |-> df.rows[rows[i]][a]])>>])
             ELSE \* .size().reset_index(name='count')
                  IF group_column = CountLabel THEN Raised
                  ELSE TableResult(<<group_column, CountLabel>>,
                           [k \in 1..Len(keys) |-> k - 1],
                           [k \in 1..Len(keys) |->
                               <<keys[k], NumCell(Len(GroupRows(df, p, keys[k])))>>])

(***************************************************************************)
(* DataProcessor._get_correlation_analysis                                 *)
(***************************************************************************)
\* df[numeric_cols].corr(): a square matrix labelled by numeric_cols
Corr(df, numeric_cols) ==
    TableResult(numeric_cols, numeric_cols,
                [i \in 1..Len(numeric_cols) |-> [j \in 1..Len(numeric_cols) |->
                    AggCell("corr", ColumnCells(df, ColumnIndex(df, numeric_cols[j])))]])

get_correlation_analysis(df, columns) ==
    IF columns.kind = "malformed" THEN Raised
    ELSE LET numeric_cols ==
                 IF columns.items = <<>> THEN NumericColumnNames(df)
                 ELSE SelectSeq(columns.items, LAMBDA col :
                          /\ HasColumn(df, col)
                          /\ df.dtypes[ColumnIndex(df, col)] \in {"int64", "float64"})
         IN  IF Len(numeric_cols) < 2 THEN EmptyResult
             ELSE Corr(df, numeric_cols)

(***************************************************************************)
(* DataProcessor._get_value_counts                                         *)
(***************************************************************************)
\* the keys by descending count; equal counts keep the key order
RECURSIVE ByCount(_, _)
ByCount(keys, count) ==
    IF keys = {} THEN <<>>
    ELSE LET m == CHOOSE k \in keys : \A o \in keys \ {k} :
                      count[k] > count[o] \/ (count[k] = count[o] /\ KeyLess(k, o))
         IN  <<m>> \o ByCount(keys \ {m}, count)

\* named_counts: value_counts() names its result 'count' and its index after
\* the column (pandas 2), so that reset_index cannot insert a column 'count';
\* older versions leave the index unnamed
get_value_counts(df, column, named_counts) ==
    IF ~HasColumn(df, column) THEN EmptyResult
    ELSE IF named_counts /\ column = CountLabel THEN Raised
    ELSE LET cells == ColumnCells(df, ColumnIndex(df, column))
             keys  == { cells[r] : r \in { q \in 1..Len(cells) : ~IsNa(cells[q]) } }
             count == [k \in keys |-> Count(cells, k)]
             order == ByCount(keys, count)
         IN  TableResult(<<column, CountLabel>>,
                         [k \in 1..Len(order) |-> k - 1],
                         [k \in 1..Len(order) |-> <<order[k], NumCell(count[order[k]])>>])

(***************************************************************************)
(* DataProcessor._execute_custom_query                                     *)
(***************************************************************************)
TextOf(text) == [kind |-> "str", items |-> text]

forbidden_keywords ==
    { <<"d","r","o","p">>, <<"d","e","l","e","t","e">>, <<"i","n","s","e","r","t">>,
      <<"u","p","d","a","t","e">>, <<"e","x","e","c">>, <<"e","v","a","l">> }

\* df.query(query) for expressions "<column> > <integer>"; any other text
\* fails to evaluate
DfQuery(df, text) ==
    LET q    == SelectSeq(text, LAMBDA c : c # " ")
        gts  == { i \in 1..Len(q) : q[i] = ">" }
    IN  IF Cardinality(gts) # 1 THEN Raised
        ELSE LET i      == CHOOSE j \in gts : TRUE
                 column == SubSeq(q, 1, i - 1)
                 number == SubSeq(q, i + 1, Len(q))
             IN  IF \/ column = <<>> \/ IsDigitChar(column[1])
                    \/ \E j \in 1..Len(column) : ~IsCanonicalChar(column[j])
                    \/ ~IsDigit(number)
                    \/ ~HasColumn(df, column)
                 THEN Raised
                 ELSE LET p     == ColumnIndex(df, column)
                          value == NumValue(ParseDigits(number))
                      IN  IF OrderingRaises(df.dtypes[p], ColumnCells(df, p), value)
                          THEN Raised
                          ELSE RowsResult(df,
                                   SelectSeq([r \in 1..Len(df.rows) |-> r],
                                             LAMBDA r : CellLess(value, df.rows[r][p])))

\* the query goes to df.query without the keyword test
execute_custom_query_unchecked(df, query) ==
    IF query.kind = "malformed" THEN EmptyResult
    ELSE LET result == DfQuery(df, query.items)
         IN  IF result.kind = "raise" THEN EmptyResult ELSE result

execute_custom_query(df, query) ==
    IF query.kind = "malformed" THEN EmptyResult
    ELSE IF \E keyword \in forbidden_keywords : Contains(Lower(query.items), keyword)
    THEN EmptyResult
    ELSE LET result == DfQuery(df, query.items)
         IN  IF result.kind = "raise" THEN EmptyResult ELSE result

(***************************************************************************)
(* DataProcessor.execute_data_query                                        *)
(***************************************************************************)
\* an operation dict, each key read as operation.get(key, default) reads it
Operation(type) ==
    [is_dict |-> TRUE, type |-> type, columns |-> ListOf(<<>>),
     conditions |-> ListOf(<<>>), group_column |-> <<>>, agg_column |-> <<>>,
     agg_function |-> "count", column |-> <<>>, query |-> TextOf(<<>>)]

\* an operation that is not a dict
NotADict == [Operation("") EXCEPT !.is_dict = FALSE]

\* the body of the try block
Dispatch(df, operation, named_counts) ==
    IF ~operation.is_dict THEN Raised
    ELSE CASE operation.type = "statistical_summary" ->
                  get_statistical_summary(df, operation.columns)
           [] operation.type = "filter" ->
                  filter_data(df, operation.conditions)
           [] operation.type = "group_by" ->
                  group_by_analysis(df, operation.group_column, operation.agg_column,
                                    operation.agg_function)
           [] operation.type = "correlation" ->
                  get_correlation_analysis(df, operation.columns)
           [] operation.type = "value_counts" ->
                  get_value_counts(df, operation.column, named_counts)
           [] operation.type = "custom_query" ->
                  execute_custom_query(df, operation.query)
           [] OTHER -> NoneResult

\* the dispatcher without its except clause
execute_data_query_uncaught(df, operation, named_counts) ==
    Dispatch(df, operation, named_counts)

execute_data_query(df, operation, named_counts) ==
    LET result == Dispatch(df, operation, named_counts)
    IN  IF result.kind = "raise" THEN NoneResult ELSE result

(***************************************************************************)
(* Python str operations used on snippets                                  *)
(***************************************************************************)
CodeWhitespace == {" ", "\n", "\t"}

\* str.strip()
StripCode(s) == RStrip(LStrip(s, CodeWhitespace), CodeWhitespace)

\* str.split(sep) for a separator of one character
RECURSIVE SplitOn(_, _)
SplitOn(text, sep) ==
    IF \A i \in 1..Len(text) : text[i] # sep THEN <<text>>
    ELSE LET i == CHOOSE j \in 1..Len(text) :
                      text[j] = sep /\ \A k \in 1..(j - 1) : text[k] # sep
         IN  <<SubSeq(text, 1, i - 1)>> \o SplitOn(SubSeq(text, i + 1, Len(text)), sep)

\* sep.join(parts)
RECURSIVE Join(_, _)
Join(parts, sep) ==
    IF parts = <<>> THEN <<>>
    ELSE IF Len(parts) = 1 THEN parts[1]
    ELSE parts[1] \o sep \o Join(Tail(parts), sep)

\* positions at which `sub` starts in `text`
StartsOf(text, sub) ==
    { i \in 1..(Len(text) - Len(sub) + 1) : SubSeq(text, i, i + Len(sub) - 1) = sub }

\* text.replace(old, new): every non-overlapping occurrence, left to right
RECURSIVE Replace(_, _, _)
Replace(text, old, new) ==
    IF old = <<>> \/ StartsOf(text, old) = {} THEN text
    ELSE LET i == CHOOSE j \in StartsOf(text, old) : \A k \in StartsOf(text, old) : j <= k
         IN  SubSeq(text, 1, i - 1) \o new
             \o Replace(SubSeq(text, i + Len(old), Len(text)), old, new)

IsCased(c) == c \in DOMAIN LowerOf \/ c \in DOMAIN UpperOf

\* str.title(): a cased character is upper-cased after an uncased one (or at
\* the start) and lower-cased after a cased one
Title(s) ==
    [i \in 1..Len(s) |->
        IF i > 1 /\ IsCased(s[i - 1]) THEN LowerChar(s[i]) ELSE UpperChar(s[i])]

(***************************************************************************)
(* execute_plot_code: cleaning of the snippet (app.py:26-41)               *)
(***************************************************************************)
ImportWord == <<"i","m","p","o","r","t">>
FromWord   == <<"f","r","o","m">>
\* three grave accents
FenceMark  == <<"U+0060","U+0060","U+0060">>
PythonTag  == <<"p","y","t","h","o","n">>
JsonTag    == <<"j","s","o","n">>

\* the stripped line is skipped by the loop
IsSkippedLine(line) ==
    \/ StartsWith(line, ImportWord)
    \/ StartsWith(line, FromWord)
    \/ StartsWith(line, FenceMark)
    \/ line = <<>>
    \/ line = PythonTag
    \/ line = JsonTag

\* clean_lines
CleanLines(code) ==
    LET code_lines == SplitOn(StripCode(code), "\n")
        stripped   == [i \in 1..Len(code_lines) |-> StripCode(code_lines[i])]
    IN  SelectSeq(stripped, LAMBDA line : ~IsSkippedLine(line))

\* cleaned_code before column-name repair
JoinCleanLines(clean_lines) ==
    IF Len(clean_lines) > 1 THEN Join(clean_lines, <<";", " ">>)
    ELSE Join(clean_lines, <<>>)

(***************************************************************************)
(* fix_column_names_in_code (app.py:115-159)                               *)
(***************************************************************************)
UnderscoreToSpace(s) == Replace(s, <<"_">>, <<" ">>)

\* app.py:125-133
Variations(actual_col) ==
    << actual_col,
       Lower(actual_col),
       Upper(actual_col),
       Title(actual_col),
       Title(UnderscoreToSpace(actual_col)),
       Upper(UnderscoreToSpace(actual_col)),
       Lower(UnderscoreToSpace(actual_col)) >>

\* the assignments column_mapping[variation] = actual_col, in program order
RECURSIVE MappingWrites(_)
MappingWrites(actual_columns) ==
    IF actual_columns = <<>> THEN <<>>
    ELSE [i \in 1..7 |-> [wrong_name   |-> Variations(Head(actual_columns))[i],
                          correct_name |-> Head(actual_columns)]]
         \o MappingWrites(Tail(actual_columns))

\* column_mapping.items(): a key stays where it was first inserted and holds
\* the value written last
RECURSIVE MappingItems(_, _)
MappingItems(writes, i) ==
    IF i > Len(writes) THEN <<>>
    ELSE IF \E j \in 1..(i - 1) : writes[j].wrong_name = writes[i].wrong_name
    THEN MappingItems(writes, i + 1)
    ELSE LET last == CHOOSE j \in i..Len(writes) :
                        /\ writes[j].wrong_name = writes[i].wrong_name
                        /\ \A k \in (j + 1)..Len(writes) :
                               writes[k].wrong_name # writes[i].wrong_name
         IN  <<[wrong_name |-> writes[i].wrong_name,
                correct_name |-> writes[last].correct_name]>>
             \o MappingItems(writes, i + 1)

SingleQuote == "'"
DoubleQuote == "\""

\* Patterns that loses the double-quoted forms
PatternsSingleQuoted(wrong_name) ==
    << <<SingleQuote>> \o wrong_name \o <<SingleQuote>>,
       <<"[", SingleQuote>> \o wrong_name \o <<SingleQuote, "]">> >>

\* app.py:143-148
Patterns(wrong_name) ==
    << <<SingleQuote>> \o wrong_name \o <<SingleQuote>>,
       <<DoubleQuote>> \o wrong_name \o <<DoubleQuote>>,
       <<"[", SingleQuote>> \o wrong_name \o <<SingleQuote, "]">>,
       <<"[", DoubleQuote>> \o wrong_name \o <<DoubleQuote, "]">> >>

\* app.py:150-152 for one item of the mapping: the first n patterns applied,
\* each to the text the one before it left
RECURSIVE ReplacePatterns(_, _, _, _)
ReplacePatterns(fixed_code, item, patterns, n) ==
    IF n = 0 THEN fixed_code
    ELSE CHOOSE replaced \in
             { Replace(previous, patterns[n],
                       Replace(patterns[n], item.wrong_name, item.correct_name)) :
                 previous \in {ReplacePatterns(fixed_code, item, patterns, n - 1)} } : TRUE

\* app.py:140-152: the first n items of the mapping applied
RECURSIVE ReplaceItems(_, _, _)
ReplaceItems(code, items, n) ==
    IF n = 0 THEN code
    ELSE CHOOSE fixed_code \in
             { IF items[n].wrong_name # items[n].correct_name
               THEN ReplacePatterns(previous, items[n], Patterns(items[n].wrong_name),
                                    Len(Patterns(items[n].wrong_name)))
               ELSE previous :
                 previous \in {ReplaceItems(code, items, n - 1)} } : TRUE

fix_column_names_in_code(code, df) ==
    ReplaceItems(code, MappingItems(MappingWrites(df.columns), 1),
                 Len(MappingItems(MappingWrites(df.columns), 1)))

(***************************************************************************)
(* exec(cleaned_code, safe_globals, local_vars) (app.py:46-97)             *)
(* The snippets of the model are made of the statements below; any other   *)
(* text stands for one that does not compile.                              *)
(***************************************************************************)
\* the names bound by safe_globals (app.py:47-70), without '__builtins__'
BuiltinAllowList ==
    { "len", "str", "int", "float", "list", "dict", "range", "enumerate", "zip",
      "sum", "min", "max", "abs", "round", "sorted", "reversed" }

SafeGlobalsNames == {"pd", "px", "go", "df", "np", "plotly"} \cup BuiltinAllowList

\* the keys of safe_globals['__builtins__'] (app.py:71-88)
RestrictedBuiltins == BuiltinAllowList

\* what the objects bound in safe_globals can reach: pandas and numpy read
\* and write files and URLs (pd.read_csv, DataFrame.to_csv, np.load, np.save)
Capabilities(name) ==
    IF name \in {"pd", "df"} THEN {"file_read", "file_write", "network"}
    ELSE IF name = "np" THEN {"file_read", "file_write"}
    ELSE {}

FigLiteralStmt == <<"f","i","g"," ","="," ","p","x",".","b","a","r","(","x","=","[","1",",","2","]",","," ","y","=","[","3",",","4","]",")">>
FigNoneStmt    == <<"f","i","g"," ","="," ","N","o","n","e">>
AssignStmt     == <<"x"," ","="," ","1">>
DivZeroStmt    == <<"1","/","0">>
PrintStmt      == <<"p","r","i","n","t","(","'","h","i","'",")">>
InfoStmt       == <<"d","f",".","i","n","f","o","(",")">>
DropStmt       == <<"d","f",".","d","r","o","p","(","d","f",".","i","n","d","e","x",","," ","i","n","p","l","a","c","e","=","T","r","u","e",")">>
ToCsvStmt      == <<"d","f",".","t","o","_","c","s","v","(","'","o","u","t",".","c","s","v","'",")">>
ImportStmt     == <<"i","m","p","o","r","t"," ","o","s">>
ImportedStmt   == <<"i","m","p","o","r","t","e","d"," ","="," ","1">>
FigColumnOpen  == <<"f","i","g"," ","="," ","p","x",".","b","a","r","(","d","f","[">>
FigColumnClose == <<"]",")">>

Figure == <<"Figure">>
NoneObject == <<>>

\* str(e) of the exceptions the statements raise
DivZeroMessage   == <<"d","i","v","i","s","i","o","n"," ","b","y"," ","z","e","r","o">>
PrintMessage     == <<"n","a","m","e"," ","'","p","r","i","n","t","'"," ","i","s"," ","n","o","t"," ","d","e","f","i","n","e","d">>
ImportMessage    == <<"_","_","i","m","p","o","r","t","_","_"," ","n","o","t"," ","f","o","u","n","d">>
SyntaxMessage    == <<"i","n","v","a","l","i","d"," ","s","y","n","t","a","x"," ","(","<","s","t","r","i","n","g",">",","," ","l","i","n","e"," ","1",")">>
NoneStripMessage == <<"'","N","o","n","e","T","y","p","e","'"," ","o","b","j","e","c","t"," ","h","a","s"," ","n","o"," ","a","t","t","r","i","b","u","t","e"," ","'","s","t","r","i","p","'">>
KeyErrorMessage(key) == <<SingleQuote>> \o key \o <<SingleQuote>>

\* first line DataFrame.info() writes to sys.stdout
InfoText == <<"<","c","l","a","s","s"," ","'","p","a","n","d","a","s",".","c","o","r","e",".","f","r","a","m","e",".","D","a","t","a","F","r","a","m","e","'",">","\n">>

EndsWith(s, p) == Len(s) >= Len(p) /\ SubSeq(s, Len(s) - Len(p) + 1, Len(s)) = p

\* the statement is fig = px.bar(df['<key>']) with either quote
IsFigColumnStmt(stmt) ==
    /\ StartsWith(stmt, FigColumnOpen)
    /\ EndsWith(stmt, FigColumnClose)
    /\ Len(stmt) >= Len(FigColumnOpen) + Len(FigColumnClose) + 2
    /\ stmt[Len(FigColumnOpen) + 1] \in {SingleQuote, DoubleQuote}
    /\ stmt[Len(stmt) - Len(FigColumnClose)] = stmt[Len(FigColumnOpen) + 1]
    /\ \A i \in (Len(FigColumnOpen) + 2)..(Len(stmt) - Len(FigColumnClose) - 1) :
           stmt[i] \notin {SingleQuote, DoubleQuote}

FigColumnKey(stmt) ==
    SubSeq(stmt, Len(FigColumnOpen) + 2, Len(stmt) - Len(FigColumnClose) - 1)

\* the StringIO that sys.stdout is bound to while the snippet runs (app.py:92)
CaptureBuffer == "StringIO"

\* interpreter state: local_vars['fig'], the other names of local_vars, the
\* captured text, the table the name df is bound to, what the snippet did
\* outside the process, and the stream sys.stdout is bound to
Frame(df) ==
    [raised |-> FALSE, message |-> <<>>, has_fig |-> FALSE, fig |-> NoneObject,
     locals |-> {}, output |-> <<>>, df |-> df, effects |-> {},
     stdout |-> CaptureBuffer]

Raise(frame, message) == [frame EXCEPT !.raised = TRUE, !.message = message]

\* the pieces of a statement between single quotes: the odd pieces are code,
\* the even pieces the contents of its string literals
QuotePieces(stmt) == SplitOn(stmt, SingleQuote)

CodePieces(stmt) ==
    LET pieces == QuotePieces(stmt)
    IN  IF Len(pieces) % 2 = 0 THEN <<>>
        ELSE [k \in 1..((Len(pieces) + 1) \div 2) |-> pieces[2 * k - 1]]

Literals(stmt) ==
    LET pieces == QuotePieces(stmt)
    IN  [k \in 1..(Len(pieces) \div 2) |-> pieces[2 * k]]

\* statements of the snippets the handler and the app generate
HistogramForm == << <<"f","i","g"," ","="," ","p","x",".","h","i","s","t","o","g","r","a","m","(","d","f",","," ","x","=">>, <<","," ","t","i","t","l","e","=">>, <<")">> >>
BoxForm       == << <<"f","i","g"," ","="," ","p","x",".","b","o","x","(","d","f",","," ","y","=">>, <<","," ","t","i","t","l","e","=">>, <<")">> >>
ScatterForm   == << <<"f","i","g"," ","="," ","p","x",".","s","c","a","t","t","e","r","(","d","f",","," ","x","=">>, <<","," ","y","=">>, <<","," ","t","i","t","l","e","=">>, <<")">> >>
CountsTenForm  == << <<"c","o","u","n","t","s"," ","="," ","d","f","[">>, <<"]",".","v","a","l","u","e","_","c","o","u","n","t","s","(",")",".","h","e","a","d","(","1","0",")">> >>
CountsFiveForm == << <<"c","o","u","n","t","s"," ","="," ","d","f","[">>, <<"]",".","v","a","l","u","e","_","c","o","u","n","t","s","(",")",".","h","e","a","d","(","5",")">> >>
BarCountsForm == << <<"f","i","g"," ","="," ","p","x",".","b","a","r","(","x","=","c","o","u","n","t","s",".","i","n","d","e","x",","," ","y","=","c","o","u","n","t","s",".","v","a","l","u","e","s",","," ","t","i","t","l","e","=">>, <<")">> >>
NumericDfOpen  == <<"n","u","m","e","r","i","c","_","d","f"," ","="," ","d","f","[","[">>
NumericDfClose == <<"]","]">>
CorrStmt   == <<"c","o","r","r","_","m","a","t","r","i","x"," ","="," ","n","u","m","e","r","i","c","_","d","f",".","c","o","r","r","(",")">>
ImshowStmt == <<"f","i","g"," ","="," ","p","x",".","i","m","s","h","o","w","(","c","o","r","r","_","m","a","t","r","i","x",","," ","t","i","t","l","e","=","'","C","o","r","r","e","l","a","t","i","o","n"," ","H","e","a","t","m","a","p","'",","," ","t","e","x","t","_","a","u","t","o","=","T","r","u","e",","," ","c","o","l","o","r","_","c","o","n","t","i","n","u","o","u","s","_","s","c","a","l","e","=","'","R","d","B","u","'",")">>
NoDataStmt == <<"f","i","g"," ","="," ","p","x",".","b","a","r","(","x","=","[","'","N","o"," ","D","a","t","a","'","]",","," ","y","=","[","0","]",","," ","t","i","t","l","e","=","'","N","o"," ","d","a","t","a"," ","a","v","a","i","l","a","b","l","e"," ","f","o","r"," ","p","l","o","t","t","i","n","g","'",")">>

\* the statement is numeric_df = df[['<a>', '<b>', ...]]
IsNumericDfStmt(stmt) ==
    LET code == CodePieces(stmt)
    IN  /\ Len(code) >= 2
        /\ code[1] = NumericDfOpen
        /\ code[Len(code)] = NumericDfClose
        /\ \A k \in 2..(Len(code) - 1) : code[k] = <<","," ">>

\* repr of a list of str
ListRepr(names) ==
    <<"[">> \o Join([k \in 1..Len(names) |-> <<SingleQuote>> \o names[k] \o <<SingleQuote>>], <<","," ">>)
    \o <<"]">>

\* str(e) of the exceptions the generated statements raise
NotAColumnMessage(field, df, argument) ==
    <<"V","a","l","u","e"," ","o","f"," ","'">> \o field \o <<"'"," ","i","s"," ","n","o","t"," ","t","h","e"," ","n","a","m","e"," ","o","f"," ","a"," ","c","o","l","u","m","n"," ","i","n"," ","'","d","a","t","a","_","f","r","a","m","e","'","."," ","E","x","p","e","c","t","e","d"," ","o","n","e"," ","o","f"," ">>
    \o ListRepr(df.columns) \o <<" ","b","u","t"," ","r","e","c","e","i","v","e","d",":"," ">> \o argument
NotInIndexMessage(missing) == <<"\"">> \o ListRepr(missing) \o <<" ","n","o","t"," ","i","n"," ","i","n","d","e","x","\"">>
NoneInColumnsMessage(keys) ==
    <<"\"","N","o","n","e"," ","o","f"," ","[","I","n","d","e","x","(">> \o ListRepr(keys) \o <<","," ","d","t","y","p","e","=","'","o","b","j","e","c","t","'",")","]"," ","a","r","e"," ","i","n"," ","t","h","e"," ","[","c","o","l","u","m","n","s","]","\"">>
NameMessage(name) == <<"n","a","m","e"," ","'">> \o name \o <<"'"," ","i","s"," ","n","o","t"," ","d","e","f","i","n","e","d">>

\* px.<chart>(df, <field>='<name>', ...): the first argument that names no
\* column raises ValueError
RECURSIVE PxChart(_, _, _)
PxChart(frame, fields, names) ==
    IF fields = <<>> THEN [frame EXCEPT !.has_fig = TRUE, !.fig = Figure]
    ELSE IF ~HasColumn(frame.df, Head(names))
    THEN Raise(frame, NotAColumnMessage(Head(fields), frame.df, Head(names)))
    ELSE PxChart(frame, Tail(fields), Tail(names))

\* a statement that reads the local `name`
Reading(frame, name, after) ==
    IF name \in frame.locals THEN after ELSE Raise(frame, NameMessage(name))

Bind(frame, name) == [frame EXCEPT !.locals = @ \cup {name}]

ExecGenerated(frame, stmt) ==
    LET code == CodePieces(stmt)
        lits == Literals(stmt)
    IN  IF stmt = CorrStmt
        THEN Reading(frame, <<"n","u","m","e","r","i","c","_","d","f">>, Bind(frame, <<"c","o","r","r","_","m","a","t","r","i","x">>))
        ELSE IF stmt = ImshowStmt
        THEN Reading(frame, <<"c","o","r","r","_","m","a","t","r","i","x">>, [frame EXCEPT !.has_fig = TRUE, !.fig = Figure])
        ELSE IF stmt = NoDataStmt THEN [frame EXCEPT !.has_fig = TRUE, !.fig = Figure]
        ELSE IF code = HistogramForm THEN PxChart(frame, <<<<"x">>>>, <<lits[1]>>)
        ELSE IF code = BoxForm THEN PxChart(frame, <<<<"y">>>>, <<lits[1]>>)
        ELSE IF code = ScatterForm THEN PxChart(frame, <<<<"x">>, <<"y">>>>, <<lits[1], lits[2]>>)
        ELSE IF code \in {CountsTenForm, CountsFiveForm}
        THEN IF HasColumn(frame.df, lits[1]) THEN Bind(frame, <<"c","o","u","n","t","s">>)
             ELSE Raise(frame, KeyErrorMessage(lits[1]))
        ELSE IF code = BarCountsForm
        THEN Reading(frame, <<"c","o","u","n","t","s">>, [frame EXCEPT !.has_fig = TRUE, !.fig = Figure])
        ELSE LET missing == SelectSeq(lits, LAMBDA name : ~HasColumn(frame.df, name))
             IN  IF missing = <<>> THEN Bind(frame, <<"n","u","m","e","r","i","c","_","d","f">>)
                 ELSE IF missing = lits THEN Raise(frame, NoneInColumnsMessage(lits))
                 ELSE Raise(frame, NotInIndexMessage(missing))

IsGenerated(stmt) ==
    \/ stmt \in {CorrStmt, ImshowStmt, NoDataStmt}
    \/ CodePieces(stmt) \in { HistogramForm, BoxForm, ScatterForm, CountsTenForm,
                              CountsFiveForm, BarCountsForm }
    \/ IsNumericDfStmt(stmt)

Compiles(stmt) ==
    \/ stmt \in { FigLiteralStmt, FigNoneStmt, AssignStmt, DivZeroStmt, PrintStmt,
                  InfoStmt, DropStmt, ToCsvStmt, ImportStmt, ImportedStmt }
    \/ IsFigColumnStmt(stmt)
    \/ IsGenerated(stmt)

\* the simple statements of the one-line snippet
Statements(cleaned_code) ==
    LET parts    == SplitOn(cleaned_code, ";")
        stripped == [i \in 1..Len(parts) |-> StripCode(parts[i])]
    IN  IF stripped[Len(stripped)] = <<>>
        THEN SubSeq(stripped, 1, Len(stripped) - 1)
        ELSE stripped

ExecStmt(frame, stmt) ==
    IF stmt = FigLiteralStmt THEN [frame EXCEPT !.has_fig = TRUE, !.fig = Figure]
    ELSE IF stmt = FigNoneStmt THEN [frame EXCEPT !.has_fig = TRUE, !.fig = NoneObject]
    ELSE IF stmt \in {AssignStmt, ImportedStmt} THEN frame
    ELSE IF stmt = DivZeroStmt THEN Raise(frame, DivZeroMessage)
    ELSE IF stmt = PrintStmt THEN Raise(frame, PrintMessage)
    ELSE IF stmt = InfoStmt THEN [frame EXCEPT !.output = @ \o InfoText]
    ELSE IF stmt = DropStmt THEN [frame EXCEPT !.df.rows = <<>>]
    ELSE IF stmt = ToCsvStmt THEN [frame EXCEPT !.effects = @ \cup {"file_write"}]
    ELSE IF stmt = ImportStmt THEN Raise(frame, ImportMessage)
    ELSE IF IsFigColumnStmt(stmt)
    THEN IF HasColumn(frame.df, FigColumnKey(stmt))
         THEN [frame EXCEPT !.has_fig = TRUE, !.fig = Figure]
         ELSE Raise(frame, KeyErrorMessage(FigColumnKey(stmt)))
    ELSE ExecGenerated(frame, stmt)

RECURSIVE ExecStmts(_, _)
ExecStmts(frame, stmts) ==
    IF stmts = <<>> \/ frame.raised THEN frame
    ELSE ExecStmts(ExecStmt(frame, Head(stmts)), Tail(stmts))

\* compile, then run
Exec(cleaned_code, df) ==
    LET stmts == Statements(cleaned_code)
    IN  IF \E i \in 1..Len(stmts) : ~Compiles(stmts[i])
        THEN Raise(Frame(df), SyntaxMessage)
        ELSE ExecStmts(Frame(df), stmts)

(***************************************************************************)
(* execute_plot_code (app.py:23-113)                                       *)
(***************************************************************************)
\* a code argument that is None
NoneCode == Malformed

NoneRepr == <<"N","o","n","e">>

\* str(code)
Str(code) == IF code.kind = "str" THEN code.items ELSE NoneRepr

ErrorPrefix   == <<"E","r","r","o","r"," ","e","x","e","c","u","t","i","n","g"," ","p","l","o","t"," ","c","o","d","e",":"," ">>
AttemptedMark == <<"\n","C","o","d","e"," ","a","t","t","e","m","p","t","e","d",":"," ">>
NoFigPrefix   == <<"N","o"," ","'","f","i","g","'"," ","v","a","r","i","a","b","l","e"," ","f","o","u","n","d"," ","i","n"," ","t","h","e"," ","g","e","n","e","r","a","t","e","d"," ","c","o","d","e","."," ","C","o","d","e"," ","e","x","e","c","u","t","e","d",":"," ">>

PlotReturn(fig, output, error, df, effects, stdout) ==
    [fig |-> fig, output |-> output, error |-> error,
     df |-> df, effects |-> effects, stdout |-> stdout]

\* app.py:27-44
CleanedCode(code, df) ==
    fix_column_names_in_code(JoinCleanLines(CleanLines(code.items)), df)

\* Returned that reports no error when the snippet left no fig
ReturnedSilently(frame, cleaned_code, old_stdout) ==
    PlotReturn(frame.fig, frame.output, <<>>, frame.df, frame.effects, old_stdout)

\* app.py:99-107
Returned(frame, cleaned_code, old_stdout) ==
    IF frame.has_fig
    THEN PlotReturn(frame.fig, frame.output, <<>>, frame.df, frame.effects, old_stdout)
    ELSE PlotReturn(NoneObject, frame.output, <<NoFigPrefix \o cleaned_code>>,
                    frame.df, frame.effects, old_stdout)

\* app.py:110-111: sys.stdout after the except branch; bound_old_stdout is
\* <<stream>> when the name old_stdout is in locals(), <<>> when the exception
\* came before line 91
RestoredStdout(frame, bound_old_stdout) ==
    IF bound_old_stdout # <<>> THEN bound_old_stdout[1] ELSE frame.stdout

\* Caught that hands back the chart bound before the exception
CaughtKeepingFig(frame, code, bound_old_stdout) ==
    PlotReturn(frame.fig, <<>>,
               <<ErrorPrefix \o frame.message \o AttemptedMark \o Str(code)>>,
               frame.df, frame.effects, RestoredStdout(frame, bound_old_stdout))

\* Caught without lines 110-111
CaughtLeavingBuffer(frame, code, bound_old_stdout) ==
    PlotReturn(NoneObject, <<>>,
               <<ErrorPrefix \o frame.message \o AttemptedMark \o Str(code)>>,
               frame.df, frame.effects, frame.stdout)

\* app.py:109-113
Caught(frame, code, bound_old_stdout) ==
    PlotReturn(NoneObject, <<>>,
               <<ErrorPrefix \o frame.message \o AttemptedMark \o Str(code)>>,
               frame.df, frame.effects, RestoredStdout(frame, bound_old_stdout))

\* old_stdout is the stream sys.stdout is bound to at the call; code.strip()
\* of a code that is not a string raises at line 27, before the redirection
execute_plot_code(code, df, old_stdout) ==
    IF code.kind # "str"
    THEN Caught(Raise([Frame(df) EXCEPT !.stdout = old_stdout], NoneStripMessage),
                code, <<>>)
    ELSE LET frame == Exec(CleanedCode(code, df), df)
         IN  IF frame.raised
             THEN Caught(frame, code, <<old_stdout>>)
             ELSE Returned(frame, CleanedCode(code, df), old_stdout)

(***************************************************************************)
(* DataProcessor.get_data_context (data_processor.py:110-142)              *)
(***************************************************************************)
\* str(dtype)
DtypeText(dtype) ==
    CASE dtype = "int64"   -> <<"i","n","t","6","4">>
      [] dtype = "float64" -> <<"f","l","o","a","t","6","4">>
      [] dtype = "object"  -> <<"o","b","j","e","c","t">>
      [] OTHER             -> <<"d","a","t","e","t","i","m","e","6","4","[","n","s","]">>

\* the text before the column lines (data_processor.py:114-120)
ContextHead(df) ==
    <<"\n"," "," "," "," "," "," "," "," ","D","a","t","a","s","e","t"," ","I","n","f","o","r","m","a","t","i","o","n",":","\n"," "," "," "," "," "," "," "," ","-"," ","T","o","t","a","l"," ","r","o","w","s",":"," ">> \o IntToStr(Len(df.rows))
    \o <<"\n"," "," "," "," "," "," "," "," ","-"," ","T","o","t","a","l"," ","c","o","l","u","m","n","s",":"," ">> \o IntToStr(Len(df.columns))
    \o <<"\n"," "," "," "," "," "," "," "," ","\n"," "," "," "," "," "," "," "," ","C","o","l","u","m","n"," ","D","e","t","a","i","l","s",":","\n"," "," "," "," "," "," "," "," ">>

\* df[col].dropna().unique(), in order of first appearance
RECURSIVE Unique(_)
Unique(cells) ==
    IF cells = <<>> THEN <<>>
    ELSE LET before == Unique(SubSeq(cells, 1, Len(cells) - 1))
             last   == cells[Len(cells)]
         IN  IF IsNa(last) \/ \E k \in 1..Len(before) : before[k] = last
             THEN before ELSE Append(before, last)

\* str(df[col].min()) and str(df[col].max()) of a numeric column
RangeText(dtype, cells) ==
    LET values == { cells[r].n : r \in { q \in 1..Len(cells) : ~IsNa(cells[q]) } }
        Show(n) == CellText(NumCell(n), dtype)
    IN  IF values = {} THEN NanText \o <<" ","t","o"," ">> \o NanText
        ELSE Show(CHOOSE n \in values : \A m \in values : n <= m) \o <<" ","t","o"," ">>
             \o Show(CHOOSE n \in values : \A m \in values : n >= m)

\* the line of column p (data_processor.py:122-140)
ContextLine(df, column_mapping, p) ==
    LET col           == df.columns[p]
        original_name == IF col \in DOMAIN column_mapping THEN column_mapping[col] ELSE col
        cells         == ColumnCells(df, p)
        missing       == Len(cells) - NotNaCount(cells)
        unique_vals   == Unique(cells)
        shown         == SubSeq(unique_vals, 1,
                                IF Len(unique_vals) < 5 THEN Len(unique_vals) ELSE 5)
    IN  <<"\n","-"," ">> \o original_name \o <<" ","(">> \o col \o <<")",":"," ">> \o DtypeText(df.dtypes[p])
        \o (IF missing > 0 THEN <<" ","-"," ">> \o IntToStr(missing) \o <<" ","m","i","s","s","i","n","g"," ","v","a","l","u","e","s">>
            ELSE <<>>)
        \o (IF df.dtypes[p] = "object"
            THEN <<" ","-"," ","S","a","m","p","l","e"," ","v","a","l","u","e","s",":"," ">>
                 \o Join([k \in 1..Len(shown) |-> CellText(shown[k], "object")], <<","," ">>)
            ELSE IF df.dtypes[p] \in {"int64", "float64"}
            THEN <<" ","-"," ","R","a","n","g","e",":"," ">> \o RangeText(df.dtypes[p], cells)
            ELSE <<>>)

get_data_context(df, column_mapping) ==
    ContextHead(df)
    \o Join([p \in 1..Len(df.columns) |-> ContextLine(df, column_mapping, p)], <<>>)

(***************************************************************************)
(* LLMHandler: columns recovered from the context (llm_handler.py:528-549) *)
(***************************************************************************)
\* re.search(r'\(([^)]+)\)', line): <<>> or <<group 1>> of the leftmost match
ParenGroup(line) ==
    LET close(i) == CHOOSE j \in (i + 1)..Len(line) :
                        line[j] = ")" /\ \A k \in (i + 1)..(j - 1) : line[k] # ")"
        opens == { i \in 1..Len(line) :
                     /\ line[i] = "("
                     /\ \E j \in (i + 1)..Len(line) : line[j] = ")"
                     /\ close(i) > i + 1 }
    IN  IF opens = {} THEN <<>>
        ELSE LET i == CHOOSE a \in opens : \A b \in opens : a <= b
             IN  <<SubSeq(line, i + 1, close(i) - 1)>>

\* the groups of the lines that pass the test, in order
RECURSIVE GroupsOf(_)
GroupsOf(context_lines) ==
    IF context_lines = <<>> THEN <<>>
    ELSE GroupsOf(SubSeq(context_lines, 1, Len(context_lines) - 1))
         \o ParenGroup(context_lines[Len(context_lines)])

extract_columns_from_context(data_context) ==
    GroupsOf(SelectSeq(SplitOn(data_context, "\n"),
                       LAMBDA line : /\ Contains(line, <<" ","-"," ">>)
                                     /\ Contains(line, <<"(">>)
                                     /\ Contains(line, <<")">>)))

extract_numeric_columns_from_context(data_context) ==
    GroupsOf(SelectSeq(SplitOn(data_context, "\n"),
                       LAMBDA line : \/ Contains(line, <<"i","n","t","6","4">>)
                                     \/ Contains(line, <<"f","l","o","a","t","6","4">>)))

(***************************************************************************)
(* LLMHandler: the rule-based fallback (llm_handler.py:323-526)            *)
(***************************************************************************)
\* col.replace('_', ' ').title()
Heading(col) == Title(UnderscoreToSpace(col))

\* any(word in query_lower for word in words)
AnyWordIn(query_lower, words) == \E word \in words : Contains(query_lower, word)

HistogramCode(col, title) ==
    <<"f","i","g"," ","="," ","p","x",".","h","i","s","t","o","g","r","a","m","(","d","f",","," ","x","=","'">> \o col \o <<"'",","," ","t","i","t","l","e","=","'">> \o title \o <<"'",")">>

BarCode(col, head, title) ==
    <<"c","o","u","n","t","s"," ","="," ","d","f","[","'">> \o col \o <<"'","]",".","v","a","l","u","e","_","c","o","u","n","t","s","(",")",".","h","e","a","d","(">> \o head
    \o <<")",";"," ","f","i","g"," ","="," ","p","x",".","b","a","r","(","x","=","c","o","u","n","t","s",".","i","n","d","e","x",","," ","y","=","c","o","u","n","t","s",".","v","a","l","u","e","s",","," ","t","i","t","l","e","=","'">> \o title \o <<"'",")">>

HeatmapCode(numeric_columns) ==
    <<"n","u","m","e","r","i","c","_","d","f"," ","="," ","d","f","[">> \o <<"[","'">> \o Join(numeric_columns, <<"'",","," ","'">>) \o <<"'","]">>
    \o <<"]",";"," ","c","o","r","r","_","m","a","t","r","i","x"," ","="," ","n","u","m","e","r","i","c","_","d","f",".","c","o","r","r","(",")",";"," ","f","i","g"," ","="," ","p","x",".","i","m","s","h","o","w","(","c","o","r","r","_","m","a","t","r","i","x",","," ","t","i","t","l","e","=","'","C","o","r","r","e","l","a","t","i","o","n"," ","H","e","a","t","m","a","p","'",","," ","t","e","x","t","_","a","u","t","o","=","T","r","u","e",","," ","c","o","l","o","r","_","c","o","n","t","i","n","u","o","u","s","_","s","c","a","l","e","=","'","R","d","B","u","'",")">>

BoxCode(col, title) ==
    <<"f","i","g"," ","="," ","p","x",".","b","o","x","(","d","f",","," ","y","=","'">> \o col \o <<"'",","," ","t","i","t","l","e","=","'">> \o title \o <<"'",")">>

ScatterCode(col1, col2, title) ==
    <<"f","i","g"," ","="," ","p","x",".","s","c","a","t","t","e","r","(","d","f",","," ","x","=","'">> \o col1 \o <<"'",","," ","y","=","'">> \o col2 \o <<"'",","," ","t","i","t","l","e","=","'">> \o title \o <<"'",")">>

Section(title, description) == [title |-> title, description |-> description]

\* a response dict with the nine keys every branch of the fallback writes
ResponseDict(answer, requires_plot, requires_data, requires_multiple_plots,
             requires_dashboard, data_operation, single_code, plot_codes,
             dashboard_sections) ==
    [answer |-> answer, requires_plot |-> requires_plot, requires_data |-> requires_data,
     requires_multiple_plots |-> requires_multiple_plots,
     requires_dashboard |-> requires_dashboard, data_operation |-> data_operation,
     plot_code |-> single_code, plot_codes |-> plot_codes,
     dashboard_sections |-> dashboard_sections]

\* the dict {}
EmptyOperation == Operation("")

\* the plot codes and sections of the dashboard, in the order they are appended
DashboardParts(numeric_columns, categorical_columns) ==
    (IF numeric_columns # <<>>
     THEN <<[code |-> HistogramCode(numeric_columns[1],
                         <<"D","i","s","t","r","i","b","u","t","i","o","n"," ","o","f"," ">> \o Heading(numeric_columns[1])),
             section |-> Section(<<"N","u","m","e","r","i","c"," ","D","i","s","t","r","i","b","u","t","i","o","n">>,
                         <<"D","i","s","t","r","i","b","u","t","i","o","n"," ","a","n","a","l","y","s","i","s"," ","o","f"," ">> \o Heading(numeric_columns[1]))]>>
     ELSE <<>>)
    \o (IF categorical_columns # <<>>
        THEN <<[code |-> BarCode(categorical_columns[1], <<"1","0">>,
                            <<"T","o","p"," ","C","a","t","e","g","o","r","i","e","s"," ","i","n"," ">> \o Heading(categorical_columns[1])),
                section |-> Section(<<"C","a","t","e","g","o","r","i","c","a","l"," ","A","n","a","l","y","s","i","s">>,
                            <<"M","o","s","t"," ","f","r","e","q","u","e","n","t"," ","v","a","l","u","e","s"," ","i","n"," ">> \o Heading(categorical_columns[1]))]>>
        ELSE <<>>)
    \o (IF Len(numeric_columns) > 1
        THEN <<[code |-> HeatmapCode(numeric_columns),
                section |-> Section(<<"C","o","r","r","e","l","a","t","i","o","n"," ","A","n","a","l","y","s","i","s">>,
                            <<"R","e","l","a","t","i","o","n","s","h","i","p","s"," ","b","e","t","w","e","e","n"," ","n","u","m","e","r","i","c"," ","v","a","r","i","a","b","l","e","s">>)]>>
        ELSE <<>>)
    \o (IF numeric_columns # <<>>
        THEN <<[code |-> BoxCode(numeric_columns[1],
                            <<"O","u","t","l","i","e","r"," ","D","e","t","e","c","t","i","o","n"," ","-"," ">> \o Heading(numeric_columns[1])),
                section |-> Section(<<"O","u","t","l","i","e","r"," ","D","e","t","e","c","t","i","o","n">>,
                            <<"B","o","x"," ","p","l","o","t"," ","a","n","a","l","y","s","i","s"," ","f","o","r"," ">> \o Heading(numeric_columns[1]))]>>
        ELSE <<>>)
    \o (IF Len(numeric_columns) >= 2
        THEN <<[code |-> ScatterCode(numeric_columns[1], numeric_columns[2],
                            <<"R","e","l","a","t","i","o","n","s","h","i","p",":"," ">> \o Heading(numeric_columns[2]) \o <<" ","v","s"," ">>
                            \o Heading(numeric_columns[1])),
                section |-> Section(<<"R","e","l","a","t","i","o","n","s","h","i","p"," ","A","n","a","l","y","s","i","s">>,
                            <<"S","c","a","t","t","e","r"," ","p","l","o","t"," ","s","h","o","w","i","n","g"," ","r","e","l","a","t","i","o","n","s","h","i","p"," ","b","e","t","w","e","e","n"," ","k","e","y"," ","v","a","r","i","a","b","l","e","s">>)]>>
        ELSE <<>>)

\* llm_handler.py:402-466
create_fallback_dashboard(columns, numeric_columns, categorical_columns) ==
    LET parts == DashboardParts(numeric_columns, categorical_columns)
    IN  ResponseDict(
            <<"I","'","l","l"," ","c","r","e","a","t","e"," ","a"," ","c","o","m","p","r","e","h","e","n","s","i","v","e"," ","d","a","s","h","b","o","a","r","d"," ","w","i","t","h"," ">> \o IntToStr(Len(parts))
            \o <<" ","k","e","y"," ","v","i","s","u","a","l","i","z","a","t","i","o","n","s"," ","a","n","a","l","y","z","i","n","g"," ","y","o","u","r"," ","d","a","t","a"," ","f","r","o","m"," ","m","u","l","t","i","p","l","e"," ","p","e","r","s","p","e","c","t","i","v","e","s",".">>,
            FALSE, TRUE, TRUE, TRUE,
            [Operation("statistical_summary") EXCEPT !.columns = ListOf(numeric_columns)],
            <<>>,
            [k \in 1..Len(parts) |-> parts[k].code],
            [k \in 1..Len(parts) |-> parts[k].section])

\* seq[:2]
FirstTwo(seq) == SubSeq(seq, 1, IF Len(seq) < 2 THEN Len(seq) ELSE 2)

\* llm_handler.py:468-503
create_fallback_multiple_plots(query_lower, columns, numeric_columns, categorical_columns) ==
    LET asked ==
            (IF Contains(query_lower, <<"h","i","s","t","o","g","r","a","m">>) /\ numeric_columns # <<>>
             THEN [k \in 1..Len(FirstTwo(numeric_columns)) |->
                      HistogramCode(numeric_columns[k],
                          <<"D","i","s","t","r","i","b","u","t","i","o","n"," ","o","f"," ">> \o Heading(numeric_columns[k]))]
             ELSE <<>>)
            \o (IF Contains(query_lower, <<"b","a","r">>) /\ categorical_columns # <<>>
                THEN [k \in 1..Len(FirstTwo(categorical_columns)) |->
                         BarCode(categorical_columns[k], <<"1","0">>,
                             <<"T","o","p"," ","V","a","l","u","e","s"," ","i","n"," ">> \o Heading(categorical_columns[k]))]
                ELSE <<>>)
        mix ==
            (IF numeric_columns # <<>>
             THEN <<HistogramCode(numeric_columns[1],
                        <<"D","i","s","t","r","i","b","u","t","i","o","n"," ","o","f"," ">> \o Heading(numeric_columns[1]))>>
             ELSE <<>>)
            \o (IF categorical_columns # <<>>
                THEN <<BarCode(categorical_columns[1], <<"1","0">>,
                           <<"C","a","t","e","g","o","r","i","e","s"," ","i","n"," ">> \o Heading(categorical_columns[1]))>>
                ELSE <<>>)
            \o (IF Len(numeric_columns) >= 2
                THEN <<ScatterCode(numeric_columns[1], numeric_columns[2],
                           <<"R","e","l","a","t","i","o","n","s","h","i","p"," ","A","n","a","l","y","s","i","s">>)>>
                ELSE <<>>)
        plot_codes == IF asked = <<>> THEN mix ELSE asked
    IN  ResponseDict(
            <<"I","'","l","l"," ","c","r","e","a","t","e"," ">> \o IntToStr(Len(plot_codes))
            \o <<" ","d","i","f","f","e","r","e","n","t"," ","v","i","s","u","a","l","i","z","a","t","i","o","n","s"," ","t","o"," ","s","h","o","w"," ","v","a","r","i","o","u","s"," ","a","s","p","e","c","t","s"," ","o","f"," ","y","o","u","r"," ","d","a","t","a",".">>,
            FALSE, FALSE, TRUE, FALSE, EmptyOperation, <<>>, plot_codes, <<>>)

\* llm_handler.py:505-526
generate_fallback_plot_code(query_lower, columns, numeric_columns) ==
    IF columns = <<>>
    THEN <<"f","i","g"," ","="," ","p","x",".","b","a","r","(","x","=","[","'","N","o"," ","D","a","t","a","'","]",","," ","y","=","[","0","]",","," ","t","i","t","l","e","=","'","N","o"," ","d","a","t","a"," ","a","v","a","i","l","a","b","l","e"," ","f","o","r"," ","p","l","o","t","t","i","n","g","'",")">>
    ELSE IF Contains(query_lower, <<"b","a","r">>) /\ Len(columns) >= 1
    THEN BarCode(columns[1], <<"1","0">>, <<"D","i","s","t","r","i","b","u","t","i","o","n"," ","o","f"," ">> \o Heading(columns[1]))
    ELSE IF Contains(query_lower, <<"h","i","s","t","o","g","r","a","m">>) /\ numeric_columns # <<>>
    THEN HistogramCode(numeric_columns[1],
             <<"D","i","s","t","r","i","b","u","t","i","o","n"," ","o","f"," ">> \o Heading(numeric_columns[1]))
    ELSE IF Contains(query_lower, <<"s","c","a","t","t","e","r">>) /\ Len(numeric_columns) >= 2
    THEN ScatterCode(numeric_columns[1], numeric_columns[2],
             Heading(numeric_columns[2]) \o <<" ","v","s"," ">> \o Heading(numeric_columns[1]))
    ELSE BarCode(columns[1], <<"1","0">>, <<"T","o","p"," ","1","0"," ","v","a","l","u","e","s"," ","i","n"," ">> \o Heading(columns[1]))

DashboardWords ==
    { <<"d","a","s","h","b","o","a","r","d">>, <<"o","v","e","r","v","i","e","w">>, <<"s","u","m","m","a","r","y">>, <<"c","o","m","p","r","e","h","e","n","s","i","v","e">>, <<"a","l","l"," ","a","n","a","l","y","s","i","s">>,
      <<"c","o","m","p","l","e","t","e"," ","a","n","a","l","y","s","i","s">> }
MultipleWords == { <<"m","u","l","t","i","p","l","e">>, <<"s","e","v","e","r","a","l">>, <<"v","a","r","i","o","u","s">>, <<"d","i","f","f","e","r","e","n","t"," ","c","h","a","r","t","s">>, <<"c","o","m","p","a","r","e">> }
StatisticsWords ==
    { <<"a","v","e","r","a","g","e">>, <<"m","e","a","n">>, <<"m","e","d","i","a","n">>, <<"s","u","m">>, <<"t","o","t","a","l">>, <<"s","t","a","t","i","s","t","i","c","s">>, <<"s","u","m","m","a","r","y">> }
PlotWords == { <<"c","h","a","r","t">>, <<"p","l","o","t">>, <<"g","r","a","p","h">>, <<"v","i","s","u","a","l","i","z","a","t","i","o","n">>, <<"s","h","o","w">> }
FilterWords == { <<"f","i","l","t","e","r">>, <<"w","h","e","r","e">>, <<"u","n","d","e","r">>, <<"o","v","e","r">>, <<"a","b","o","v","e">>, <<"b","e","l","o","w">> }

\* llm_handler.py:323-400
fallback_response(user_query, data_context) ==
    LET query_lower         == Lower(user_query)
        columns             == extract_columns_from_context(data_context)
        numeric_columns     == extract_numeric_columns_from_context(data_context)
        categorical_columns ==
            SelectSeq(columns, LAMBDA col :
                \A k \in 1..Len(numeric_columns) : numeric_columns[k] # col)
    IN  IF AnyWordIn(query_lower, DashboardWords)
        THEN create_fallback_dashboard(columns, numeric_columns, categorical_columns)
        ELSE IF AnyWordIn(query_lower, MultipleWords)
        THEN create_fallback_multiple_plots(query_lower, columns, numeric_columns,
                                            categorical_columns)
        ELSE IF AnyWordIn(query_lower, StatisticsWords)
        THEN ResponseDict(
                 <<"I","'","l","l"," ","c","a","l","c","u","l","a","t","e"," ","s","t","a","t","i","s","t","i","c","a","l"," ","s","u","m","m","a","r","i","e","s"," ","f","o","r"," ","t","h","e"," ","n","u","m","e","r","i","c"," ","c","o","l","u","m","n","s"," ","i","n"," ","y","o","u","r"," ","d","a","t","a","s","e","t",".">>,
                 FALSE, TRUE, FALSE, FALSE,
                 [Operation("statistical_summary") EXCEPT !.columns = ListOf(numeric_columns)],
                 <<>>, <<>>, <<>>)
        ELSE IF AnyWordIn(query_lower, PlotWords)
        THEN ResponseDict(
                 <<"I","'","l","l"," ","c","r","e","a","t","e"," ","a"," ","v","i","s","u","a","l","i","z","a","t","i","o","n"," ","f","o","r"," ","y","o","u","r"," ","d","a","t","a"," ","u","s","i","n","g"," ","t","h","e"," ","a","v","a","i","l","a","b","l","e"," ","c","o","l","u","m","n","s",".">>,
                 TRUE, FALSE, FALSE, FALSE, EmptyOperation,
                 generate_fallback_plot_code(query_lower, columns, numeric_columns),
                 <<>>, <<>>)
        ELSE IF AnyWordIn(query_lower, FilterWords)
        THEN ResponseDict(
                 <<"I","'","l","l"," ","f","i","l","t","e","r"," ","t","h","e"," ","d","a","t","a"," ","b","a","s","e","d"," ","o","n"," ","y","o","u","r"," ","c","r","i","t","e","r","i","a","."," ","H","o","w","e","v","e","r",","," ","I"," ","n","e","e","d"," ","m","o","r","e"," ","s","p","e","c","i","f","i","c"," ","c","o","n","d","i","t","i","o","n","s"," ","t","o"," ","a","p","p","l","y"," ","t","h","e"," ","f","i","l","t","e","r"," ","p","r","o","p","e","r","l","y",".">>,
                 FALSE, TRUE, FALSE, FALSE, Operation("filter"), <<>>, <<>>, <<>>)
        ELSE ResponseDict(
                 <<"I"," ","u","n","d","e","r","s","t","a","n","d"," ","y","o","u"," ","w","a","n","t"," ","t","o"," ","a","n","a","l","y","z","e"," ","y","o","u","r"," ","d","a","t","a",","," ","b","u","t"," ","I","'","m"," ","c","u","r","r","e","n","t","l","y"," ","r","u","n","n","i","n","g"," ","i","n"," ","f","a","l","l","b","a","c","k"," ","m","o","d","e","."," ","P","l","e","a","s","e"," ","e","n","s","u","r","e"," ","t","h","e"," ","G","e","m","i","n","i"," ","A","P","I"," ","i","s"," ","p","r","o","p","e","r","l","y"," ","c","o","n","f","i","g","u","r","e","d"," ","f","o","r"," ","m","o","r","e"," ","a","d","v","a","n","c","e","d"," ","q","u","e","r","y"," ","p","r","o","c","e","s","s","i","n","g",".">>,
                 FALSE, FALSE, FALSE, FALSE, EmptyOperation, <<>>, <<>>, <<>>)

(***************************************************************************)
(* LLMHandler._parse_gemini_response (llm_handler.py:271-321)              *)
(* json.loads is modelled for flat objects whose members are               *)
(* "key": true | false | "text" (a text without quotes, commas or          *)
(* escapes); the replies of the model are such objects or are not JSON.    *)
(***************************************************************************)
\* the nine keys of a response, as they are spelled in JSON
KeyText ==
    [answer |-> <<"a","n","s","w","e","r">>, requires_plot |-> <<"r","e","q","u","i","r","e","s","_","p","l","o","t">>,
     requires_data |-> <<"r","e","q","u","i","r","e","s","_","d","a","t","a">>,
     requires_multiple_plots |-> <<"r","e","q","u","i","r","e","s","_","m","u","l","t","i","p","l","e","_","p","l","o","t","s">>,
     requires_dashboard |-> <<"r","e","q","u","i","r","e","s","_","d","a","s","h","b","o","a","r","d">>,
     data_operation |-> <<"d","a","t","a","_","o","p","e","r","a","t","i","o","n">>, plot_code |-> <<"p","l","o","t","_","c","o","d","e">>,
     plot_codes |-> <<"p","l","o","t","_","c","o","d","e","s">>, dashboard_sections |-> <<"d","a","s","h","b","o","a","r","d","_","s","e","c","t","i","o","n","s">>]

ResponseKeys == DOMAIN KeyText

\* the key of the dict for a key of the JSON text; keys outside the nine are
\* kept under one name
KeyOf(text) ==
    IF \E name \in ResponseKeys : KeyText[name] = text
    THEN CHOOSE name \in ResponseKeys : KeyText[name] = text
    ELSE "other"

\* re.search(r'\{.*\}', response_text, re.DOTALL): <<>> or <<json_str>>
JsonMatch(response_text) ==
    LET opens  == { i \in 1..Len(response_text) : response_text[i] = "{" }
        closes == { i \in 1..Len(response_text) : response_text[i] = "}" }
        starts == { i \in opens : \E j \in closes : j > i }
    IN  IF starts = {} THEN <<>>
        ELSE <<SubSeq(response_text,
                      CHOOSE i \in starts : \A k \in starts : i <= k,
                      CHOOSE j \in closes : \A k \in closes : j >= k)>>

JsonTrue  == <<"t","r","u","e">>
JsonFalse == <<"f","a","l","s","e">>

\* one member of the object: [ok, key, value]
ParseMember(member) ==
    LET quotes == { i \in 2..Len(member) : member[i] = DoubleQuote }
        key_end == CHOOSE i \in quotes : \A k \in quotes : i <= k
        rest    == StripCode(SubSeq(member, key_end + 1, Len(member)))
        literal == StripCode(Tail(rest))
        failed  == [ok |-> FALSE, key |-> "other", value |-> FALSE]
    IN  IF member = <<>> \/ Head(member) # DoubleQuote \/ quotes = {} THEN failed
        ELSE IF rest = <<>> \/ Head(rest) # ":" THEN failed
        ELSE IF literal = JsonTrue
        THEN [ok |-> TRUE, key |-> KeyOf(SubSeq(member, 2, key_end - 1)), value |-> TRUE]
        ELSE IF literal = JsonFalse
        THEN [ok |-> TRUE, key |-> KeyOf(SubSeq(member, 2, key_end - 1)), value |-> FALSE]
        ELSE IF /\ Len(literal) >= 2
                /\ Head(literal) = DoubleQuote
                /\ literal[Len(literal)] = DoubleQuote
                /\ \A i \in 2..(Len(literal) - 1) : literal[i] # DoubleQuote
        THEN [ok |-> TRUE, key |-> KeyOf(SubSeq(member, 2, key_end - 1)),
              value |-> SubSeq(literal, 2, Len(literal) - 1)]
        ELSE failed

\* json.loads(json_str): [ok, dict]; ok is FALSE for json.JSONDecodeError
json_loads(json_str) ==
    LET inner   == StripCode(SubSeq(json_str, 2, Len(json_str) - 1))
        parts   == SplitOn(inner, ",")
        members == [k \in 1..Len(parts) |-> ParseMember(StripCode(parts[k]))]
        last(name) == CHOOSE k \in 1..Len(members) :
                          /\ members[k].key = name
                          /\ \A m \in (k + 1)..Len(members) : members[m].key # name
    IN  IF inner = <<>> THEN [ok |-> TRUE, dict |-> <<>>]
        ELSE IF \E k \in 1..Len(members) : ~members[k].ok
        THEN [ok |-> FALSE, dict |-> <<>>]
        ELSE [ok |-> TRUE,
              dict |-> [name \in { members[k].key : k \in 1..Len(members) } |->
                           members[last(name)].value]]

MissingAnswer == <<"I"," ","a","n","a","l","y","z","e","d"," ","y","o","u","r"," ","q","u","e","r","y"," ","b","u","t"," ","c","o","u","l","d","n","'","t"," ","g","e","n","e","r","a","t","e"," ","a"," ","p","r","o","p","e","r"," ","r","e","s","p","o","n","s","e",".">>
UnprocessedAnswer == <<"I"," ","c","o","u","l","d","n","'","t"," ","p","r","o","c","e","s","s"," ","y","o","u","r"," ","q","u","e","r","y"," ","p","r","o","p","e","r","l","y",".">>

\* the response written when the text holds no JSON, or JSON that fails to parse
PlainResponse(answer) ==
    ResponseDict(answer, FALSE, FALSE, FALSE, FALSE, EmptyOperation, <<>>, <<>>, <<>>)

\* llm_handler.py:281-292: the keys the dict lacks, with their defaults
WithDefaults(parsed_response) ==
    [name \in DOMAIN parsed_response \cup ResponseKeys |->
        IF name \in DOMAIN parsed_response THEN parsed_response[name]
        ELSE PlainResponse(MissingAnswer)[name]]

\* _parse_gemini_response that returns the parsed object as it is
parse_gemini_response_as_parsed(response_text) ==
    IF response_text.kind # "str" THEN [raised |-> TRUE, response |-> <<>>]
    ELSE IF JsonMatch(response_text.items) = <<>>
    THEN [raised |-> FALSE, response |-> PlainResponse(response_text.items)]
    ELSE IF json_loads(JsonMatch(response_text.items)[1]).ok
    THEN [raised |-> FALSE,
          response |-> json_loads(JsonMatch(response_text.items)[1]).dict]
    ELSE [raised |-> FALSE, response |-> PlainResponse(response_text.items)]

\* [raised, response]: re.search raises TypeError on a text that is not a str
parse_gemini_response(response_text) ==
    IF response_text.kind # "str" THEN [raised |-> TRUE, response |-> <<>>]
    ELSE IF JsonMatch(response_text.items) = <<>>
    THEN [raised |-> FALSE, response |-> PlainResponse(response_text.items)]
    ELSE IF json_loads(JsonMatch(response_text.items)[1]).ok
    THEN [raised |-> FALSE,
          response |-> WithDefaults(json_loads(JsonMatch(response_text.items)[1]).dict)]
    ELSE [raised |-> FALSE,
          response |-> PlainResponse(IF response_text.items # <<>>
                                     THEN response_text.items ELSE UnprocessedAnswer)]

(***************************************************************************)
(* LLMHandler.process_query (llm_handler.py:34-51)                         *)
(* self_model is "none" or "gemini"; reply is what generate_content does:  *)
(* [raises, text]                                                          *)
(***************************************************************************)
Reply(raises, text) == [raises |-> raises, text |-> text]

\* process_query without the try around the call and the parsing
process_query_uncaught(self_model, reply, user_query, data_context) ==
    IF self_model = "none"
    THEN [raised |-> FALSE, response |-> fallback_response(user_query, data_context)]
    ELSE IF reply.raises THEN [raised |-> TRUE, response |-> <<>>]
    ELSE parse_gemini_response(reply.text)

\* [raised, response]
process_query(self_model, reply, user_query, data_context) ==
    IF self_model = "none"
    THEN [raised |-> FALSE, response |-> fallback_response(user_query, data_context)]
    ELSE IF reply.raises \/ parse_gemini_response(reply.text).raised
    THEN [raised |-> FALSE, response |-> fallback_response(user_query, data_context)]
    ELSE parse_gemini_response(reply.text)

(***************************************************************************)
(* Specification of the normalizer pipeline                                *)
(***************************************************************************)
\* a file that cannot be parsed
UnreadableFile == [readable |-> FALSE, header |-> <<>>, data |-> <<>>]

\* app.py:12-21, with no upload yet
SessionIdle ==
    /\ widget_file = <<>>
    /\ st_data_processor = <<>>
    /\ st_data_uploaded = FALSE
    /\ st_chat_history = <<>>
    /\ last_upload = "none"

QueryIdle ==
    /\ query_operation = <<>>
    /\ query_result = <<>>

PlotIdle ==
    /\ plot_code = <<>>
    /\ plot_df = EmptyDataFrame
    /\ plot_result = <<>>
    /\ sys_stdout = "terminal"
    /\ plot_effects = {}

LLMIdle ==
    /\ llm_model = "none"
    /\ llm_log = <<>>
    /\ ask_result = <<>>

NormIdle ==
    /\ raw_headers = <<>>
    /\ new_columns = <<>>
    /\ normalized = <<>>
    /\ renormalized = <<>>
    /\ recanonical = <<>>
    /\ norm_pc = "idle"

LoadIdle ==
    /\ self_original_file = UnreadableFile
    /\ loaded = "idle"
    /\ self_df = EmptyDataFrame
    /\ self_column_mapping = <<>>

NormInit ==
    /\ raw_headers \in HeaderRows
    /\ new_columns = <<>>
    /\ normalized = <<>>
    /\ renormalized = <<>>
    /\ recanonical = <<>>
    /\ norm_pc = "raw"
    /\ LoadIdle
    /\ QueryIdle
    /\ PlotIdle
    /\ LLMIdle
    /\ SessionIdle

\* data_processor.py:23
HandleMissing ==
    /\ norm_pc = "raw"
    /\ new_columns' = handle_missing_column_names(raw_headers)
    /\ norm_pc' = "repaired"
    /\ UNCHANGED <<raw_headers, normalized, renormalized, recanonical>>
    /\ UNCHANGED <<load_vars, query_vars, plot_vars, session_vars, llm_vars>>

\* data_processor.py:26
Normalize ==
    /\ norm_pc = "repaired"
    /\ normalized' = normalize_column_names(new_columns)
    /\ norm_pc' = "normalized"
    /\ UNCHANGED <<raw_headers, new_columns, renormalized, recanonical>>
    /\ UNCHANGED <<load_vars, query_vars, plot_vars, session_vars, llm_vars>>

\* the normalizer applied to its own output
NormalizeAgain ==
    /\ norm_pc = "normalized"
    /\ renormalized' = normalize_column_names(handle_missing_column_names(normalized))
    /\ recanonical' = normalize_column_names(normalized)
    /\ norm_pc' = "again"
    /\ UNCHANGED <<raw_headers, new_columns, normalized>>
    /\ UNCHANGED <<load_vars, query_vars, plot_vars, session_vars, llm_vars>>

NormNext == HandleMissing \/ Normalize \/ NormalizeAgain

SpecNorm == NormInit /\ [][NormNext]_vars

(***************************************************************************)
(* Specification of one load: DataProcessor(uploaded_file)                 *)
(***************************************************************************)
\* data columns an uploaded sheet may hold, five rows each
SampleColumns ==
    << <<NumCell(1), NumCell(2), NumCell(3), NumCell(4), NumCell(5)>>,
       <<StrCell(<<"a">>), StrCell(<<"b">>), StrCell(<<"a">>), NaNCell, StrCell(<<"b">>)>>,
       <<StrCell(<<"1">>), StrCell(<<"2">>), StrCell(<<"3">>), StrCell(<<"4">>), StrCell(<<"x">>)>>,
       <<StrCell(<<"1">>), NumCell(2), StrCell(<<"3">>), StrCell(<<"4">>), StrCell(<<"5">>)>> >>

\* the data rows under n header cells: column p holds sample p + shift
SampleData(n, shift) ==
    [r \in 1..5 |-> [p \in 1..n |->
        SampleColumns[((p - 1 + shift) % Len(SampleColumns)) + 1][r]]]

FileHeaderRows ==
    RowsWithin(MaxRowChars)
    \cup { <<<<"D","a","t","e">>, <<"T","o","t","a","l"," ","S","c","o","r","e">>>>,
           <<<<"C","o","u","n","t","r","y">>, <<"T","o","t","a","l"," ","S","c","o","r","e">>>>,
           <<<<"a","_","b">>, <<"A"," ","b">>>>,
           <<<<"U+00C9","t","U+00E9">>, <<"a",".","1">>, <<"a">>, <<"a">>>> }

LoadFiles ==
    {UnreadableFile}
    \cup { [readable |-> TRUE, header |-> h, data |-> <<>>] : h \in FileHeaderRows }
    \cup { [readable |-> TRUE, header |-> h, data |-> SampleData(Len(h), k)] :
             h \in FileHeaderRows, k \in {0, 2} }

LoadInit ==
    /\ self_original_file \in LoadFiles
    /\ loaded = "new"
    /\ self_df = EmptyDataFrame
    /\ self_column_mapping = <<>>
    /\ NormIdle
    /\ QueryIdle
    /\ PlotIdle
    /\ LLMIdle
    /\ SessionIdle

\* data_processor.py:10-14
Construct ==
    /\ loaded = "new"
    /\ LET dp == DataProcessor(self_original_file)
       IN  /\ loaded' = IF dp.raised THEN "failed" ELSE "ok"
           /\ self_df' = dp.df
           /\ self_column_mapping' = dp.column_mapping
    /\ UNCHANGED self_original_file
    /\ UNCHANGED <<norm_vars, query_vars, plot_vars, session_vars, llm_vars>>

LoadNext == Construct

SpecLoad == LoadInit /\ [][LoadNext]_vars

(***************************************************************************)
(* Specification of the query executor: a loaded DataProcessor, then one   *)
(* call of execute_data_query                                              *)
(***************************************************************************)
ColX     == <<"x">>
ColName  == <<"n","a","m","e">>
ColAbsent == <<"z">>

\* the header row "X", "Count", "Name" and the rows under it
QueryHeader == << <<"X">>, <<"C","o","u","n","t">>, <<"N","a","m","e">> >>

QueryRowKinds ==
    { <<x, NumCell(1), name>> :
        x \in {NumCell(1), NumCell(2), NaNCell},
        name \in {StrCell(<<"a">>), StrCell(<<"A", ".">>), NaNCell} }

RECURSIVE RowSeqs(_)
RowSeqs(n) ==
    IF n = 0 THEN {<<>>}
    ELSE RowSeqs(n - 1)
         \cup { Append(rows, row) :
                  rows \in { r \in RowSeqs(n - 1) : Len(r) = n - 1 },
                  row \in QueryRowKinds }

\* and a workbook whose one column, "Dropped", has a deny-listed word in its name
QueryFiles ==
    { [readable |-> TRUE, header |-> QueryHeader, data |-> rows] :
        rows \in RowSeqs(MaxRows) }
    \cup { [readable |-> TRUE, header |-> << <<"D","r","o","p","p","e","d">> >>,
            data |-> << <<NumCell(2)>> >>] }

Cond(column, operator, value) ==
    [column |-> column, condition |-> Condition(operator, value)]

FilterOp(conds) == [Operation("filter") EXCEPT !.conditions = ListOf(conds)]

FilterOperations ==
    { FilterOp(<<Cond(column, operator, value)>>) :
        column \in {ColX, ColName},
        operator \in {"==", "!=", ">", "<", ">=", "<=", "contains"},
        value \in {NumValue(1), StrValue(<<"a">>)} }
    \cup { FilterOp(conds) : conds \in
           { <<>>,
             <<Cond(ColAbsent, "==", NumValue(1))>>,
             <<Cond(ColX, "~", NumValue(1))>>,
             <<Cond(ColX, "==", NoneValue)>>,
             <<Cond(ColX, "!=", NoneValue)>>,
             <<Cond(ColName, "contains", StrValue(<<".">>))>>,
             <<Cond(ColName, "contains", StrValue(<<"(">>))>>,
             <<[column |-> ColX, condition |-> MalformedCondition]>>,
             <<[column |-> ColAbsent, condition |-> MalformedCondition]>>,
             <<Cond(ColX, "==", NumValue(1)), Cond(ColName, "contains", StrValue(<<"a">>))>>,
             <<Cond(ColName, "==", StrValue(<<"a">>)), Cond(ColX, ">", NumValue(1))>>,
             <<Cond(ColAbsent, ">", NumValue(1)), Cond(ColX, "!=", NumValue(1))>> } }
    \cup { [Operation("filter") EXCEPT !.conditions = Malformed] }

GroupByOperations ==
    { [Operation("group_by") EXCEPT !.group_column = g] :
        g \in {ColX, ColName, CountLabel, ColAbsent, <<>>} }
    \cup { [Operation("group_by") EXCEPT !.group_column = g, !.agg_column = a,
                                         !.agg_function = f] :
             g \in {ColX, ColName}, a \in {ColX, ColAbsent},
             f \in {"count", "sum", "mean", "total"} }
    \cup { [Operation("group_by") EXCEPT !.group_column = ColX, !.agg_column = ColName,
                                         !.agg_function = f] :
             f \in {"sum", "median"} }

ColumnLists ==
    { ListOf(<<>>), ListOf(<<ColX>>), ListOf(<<ColX, CountLabel>>),
      ListOf(<<ColX, ColX>>), ListOf(<<ColX, ColName>>), ListOf(<<ColX, ColAbsent>>),
      ListOf(<<ColName, ColAbsent>>), Malformed }

Operations ==
    FilterOperations \cup GroupByOperations
    \cup { [Operation(type) EXCEPT !.columns = columns] :
             type \in {"correlation", "statistical_summary"}, columns \in ColumnLists }
    \cup { [Operation("value_counts") EXCEPT !.column = c] :
             c \in {ColX, ColName, CountLabel, ColAbsent} }
    \cup { [Operation("custom_query") EXCEPT !.query = q] : q \in
           { TextOf(<<>>), TextOf(<<"x", " ", ">", " ", "1">>), TextOf(<<"x", ">">>),
             TextOf(<<"n","a","m","e",">","1">>),
             TextOf(<<"D","r","o","p"," ","x",">","1">>),
             TextOf(<<"x",">","1"," ","E","V","A","L">>),
             TextOf(<<"d","r","o","p","p","e","d",">","1">>), Malformed } }
    \cup { Operation(""), Operation("pivot"), NotADict }

QueryInit ==
    /\ \E f \in QueryFiles :
         LET dp == DataProcessor(f)
         IN  /\ self_original_file = f
             /\ loaded = "ok"
             /\ self_df = dp.df
             /\ self_column_mapping = dp.column_mapping
    /\ QueryIdle
    /\ PlotIdle
    /\ LLMIdle
    /\ NormIdle
    /\ SessionIdle

\* data_processor.py:144-176, one call on the loaded table
ExecuteDataQuery ==
    /\ query_result = <<>>
    /\ \E operation \in Operations, named_counts \in BOOLEAN :
         /\ query_operation' = <<operation>>
         /\ query_result' = <<execute_data_query(self_df, operation, named_counts)>>
    /\ UNCHANGED <<norm_vars, load_vars, plot_vars, session_vars, llm_vars>>

QueryNext == ExecuteDataQuery

SpecQuery == QueryInit /\ [][QueryNext]_vars

(***************************************************************************)
(* Specification of execute_plot_code on a loaded table                    *)
(***************************************************************************)
PlotFiles ==
    { [readable |-> TRUE,
       header |-> << <<"T","o","t","a","l"," ","S","c","o","r","e">>, <<"C","o","u","n","t","r","y">> >>,
       data |-> << <<NumCell(1), StrCell(<<"a">>)>> >>],
      [readable |-> TRUE,
       header |-> << <<"c","o","u","n","t","r","y">> >>,
       data |-> << <<StrCell(<<"a">>)>>, <<StrCell(<<"b">>)>> >>],
      [readable |-> TRUE,
       header |-> << <<"M","i","s","s","i","n","g">>, <<"t","o","t","a","l","_","s","c","o","r","e">> >>,
       data |-> << <<NumCell(1), NumCell(2)>> >>] }

\* lines a generated snippet is made of
PlotLines ==
    { <<"f","i","g"," ","="," ","p","x",".","b","a","r","(","x","=","[","1",",","2","]",","," ","y","=","[","3",",","4","]",")">>,
      <<"f","i","g"," ","="," ","p","x",".","b","a","r","(","d","f","[","'","T","o","t","a","l"," ","S","c","o","r","e","'","]",")">>,
      <<"f","i","g"," ","="," ","p","x",".","b","a","r","(","d","f","[","\"","T","O","T","A","L","_","S","C","O","R","E","\"","]",")">>,
      <<"f","i","g"," ","="," ","p","x",".","b","a","r","(","d","f","[","'","c","o","u","n","t","r","y","'","]",")">>,
      <<"f","i","g"," ","="," ","p","x",".","b","a","r","(","d","f","[","'","M","i","s","s","i","n","g","'","]",")">>,
      <<"f","i","g"," ","="," ","N","o","n","e">>,
      <<"x"," ","="," ","1">>,
      <<"1","/","0">>,
      <<"d","f",".","i","n","f","o","(",")">>,
      <<"p","r","i","n","t","(","'","h","i","'",")">>,
      <<"i","m","p","o","r","t"," ","o","s">>,
      <<"i","m","p","o","r","t","e","d"," ","="," ","1">>,
      <<"x"," ","="," ","1",";"," ","i","m","p","o","r","t"," ","o","s">>,
      <<"U+0060","U+0060","U+0060","p","y","t","h","o","n">>,
      <<"U+0060","U+0060","U+0060">>,
      <<"d","f",".","d","r","o","p","(","d","f",".","i","n","d","e","x",","," ","i","n","p","l","a","c","e","=","T","r","u","e",")">>,
      <<" "," ","d","f",".","t","o","_","c","s","v","(","'","o","u","t",".","c","s","v","'",")">>,
      <<"p","l","o","t"," ","i","t">>,
      <<"'","C","O","U","N","T","R","Y","'","C","O","U","N","T","R","Y","'">>,
      <<>> }

\* snippets of one or two lines, and a call without a snippet
PlotCodes ==
    { TextOf(line) : line \in PlotLines }
    \cup { TextOf(first \o <<"\n">> \o second) : first \in PlotLines, second \in PlotLines }
    \cup { NoneCode }

PlotInit ==
    /\ \E f \in PlotFiles :
         LET dp == DataProcessor(f)
         IN  /\ self_original_file = f
             /\ loaded = "ok"
             /\ self_df = dp.df
             /\ self_column_mapping = dp.column_mapping
    /\ PlotIdle
    /\ LLMIdle
    /\ QueryIdle
    /\ NormIdle
    /\ SessionIdle

\* app.py:23-113, one call on the loaded table
ExecutePlotCode ==
    /\ plot_result = <<>>
    /\ \E code \in PlotCodes :
         \E ret \in {execute_plot_code(code, self_df, sys_stdout)} :
            /\ plot_code' = <<code>>
            /\ plot_df' = self_df
            /\ plot_result' = <<[fig |-> ret.fig, output |-> ret.output, error |-> ret.error]>>
            /\ self_df' = ret.df
            /\ plot_effects' = ret.effects
            /\ sys_stdout' = ret.stdout
    /\ UNCHANGED <<self_original_file, loaded, self_column_mapping>>
    /\ UNCHANGED <<norm_vars, query_vars, session_vars, llm_vars>>

PlotNext == ExecutePlotCode

SpecPlot == PlotInit /\ [][PlotNext]_vars

(***************************************************************************)
(* Specification of LLMHandler.process_query on the context of a loaded    *)
(* table                                                                   *)
(***************************************************************************)
\* Country / Total Score with three rows; a sheet of dates; a header with a
\* parenthesis; a sheet with a header and no rows
LLMFiles ==
    { [readable |-> TRUE,
       header |-> << <<"C","o","u","n","t","r","y">>, <<"T","o","t","a","l"," ","S","c","o","r","e">> >>,
       data |-> << <<StrCell(<<"a">>), NumCell(1)>>, <<StrCell(<<"b">>), NumCell(2)>>,
                   <<StrCell(<<"a">>), NumCell(3)>> >>],
      [readable |-> TRUE,
       header |-> << <<"D","a","t","e">> >>,
       data |-> << <<TsCell(1)>>, <<TsCell(2)>> >>],
      [readable |-> TRUE,
       header |-> << <<"S","c","o","r","e"," ","(","p","t","s",")">>, <<"N","a","m","e">> >>,
       data |-> << <<NumCell(1), StrCell(<<"a">>)>> >>],
      [readable |-> TRUE,
       header |-> << <<"A">> >>,
       data |-> <<>>] }

DashboardQuery == <<"C","r","e","a","t","e"," ","a"," ","d","a","s","h","b","o","a","r","d">>

LLMQueries ==
    { DashboardQuery, <<"S","h","o","w"," ","a"," ","b","a","r"," ","c","h","a","r","t">>, <<"C","o","m","p","a","r","e"," ","t","h","i","n","g","s">>, <<"a","v","e","r","a","g","e">>,
      <<"r","o","w","s"," ","w","h","e","r","e"," ","x">>, <<"h","e","l","l","o">> }

\* generate_content raises; response.text is None; a text without JSON; an
\* object that omits the answer; a brace pair that is not JSON
ServiceReplies ==
    { Reply(TRUE, TextOf(<<>>)),
      Reply(FALSE, Malformed),
      Reply(FALSE, TextOf(<<"H","e","l","l","o"," ","t","h","e","r","e">>)),
      Reply(FALSE, TextOf(<<"S","u","r","e",":"," ","{","\"","r","e","q","u","i","r","e","s","_","p","l","o","t","\"",":"," ","t","r","u","e",","," ","\"","p","l","o","t","_","c","o","d","e","\"",":"," ","\"","x"," ","="," ","1","\"","}"," ","d","o","n","e">>)),
      Reply(FALSE, TextOf(<<"{","o","o","p","s","}">>)) }

\* the reply of a call that never reaches the service
NoReply == Reply(TRUE, TextOf(<<>>))

\* the (query, reply) pairs of a call
LLMCalls(self_model) ==
    IF self_model = "none"
    THEN { [user_query |-> q, reply |-> NoReply] : q \in LLMQueries }
    ELSE { [user_query |-> q, reply |-> r] :
             q \in {DashboardQuery, <<"h","e","l","l","o">>}, r \in ServiceReplies }

LLMInit ==
    /\ \E f \in LLMFiles :
         LET dp == DataProcessor(f)
         IN  /\ self_original_file = f
             /\ loaded = "ok"
             /\ self_df = dp.df
             /\ self_column_mapping = dp.column_mapping
    /\ llm_model \in {"none", "gemini"}
    /\ llm_log = <<>>
    /\ ask_result = <<>>
    /\ PlotIdle
    /\ QueryIdle
    /\ NormIdle
    /\ SessionIdle

\* llm_handler.py:34-51, one call with the context of the loaded table
ProcessQuery ==
    /\ Len(llm_log) < MaxCalls
    /\ \E call \in LLMCalls(llm_model) :
         \E data_context \in {get_data_context(self_df, self_column_mapping)} :
           \E out \in {process_query(llm_model, call.reply, call.user_query, data_context)} :
              llm_log' = Append(llm_log,
                                [user_query |-> call.user_query,
                                 data_context |-> data_context,
                                 reply |-> call.reply,
                                 raised |-> out.raised,
                                 response |-> out.response])
    /\ UNCHANGED <<llm_model, ask_result>>
    /\ UNCHANGED <<norm_vars, load_vars, query_vars, plot_vars, session_vars>>

LLMNext == ProcessQuery

SpecLLM == LLMInit /\ [][LLMNext]_vars

(***************************************************************************)
(* process_user_query with the handler and the interpreter behind it       *)
(* (app.py:186-320)                                                        *)
(***************************************************************************)
\* df.select_dtypes(include=['object']).columns.tolist()
CategoricalColumnNames(df) ==
    LET ps == SelectSeq([p \in 1..Len(df.columns) |-> p],
                        LAMBDA p : df.dtypes[p] = "object")
    IN  [k \in 1..Len(ps) |-> df.columns[ps[k]]]

\* app.py:186-212: <<code>>, or <<>> for None
create_simple_fallback_plot(plot_index, df) ==
    LET numeric_columns     == NumericColumnNames(df)
        categorical_columns == CategoricalColumnNames(df)
    IN  IF plot_index = 0 /\ numeric_columns # <<>>
        THEN <<HistogramCode(numeric_columns[1], <<"D","a","t","a"," ","D","i","s","t","r","i","b","u","t","i","o","n">>)>>
        ELSE IF plot_index = 1 /\ categorical_columns # <<>>
        THEN <<BarCode(categorical_columns[1], <<"5">>, <<"C","a","t","e","g","o","r","y"," ","D","i","s","t","r","i","b","u","t","i","o","n">>)>>
        ELSE IF plot_index = 2 /\ Len(numeric_columns) >= 2
        THEN <<ScatterCode(numeric_columns[1], numeric_columns[2], <<"D","a","t","a"," ","R","e","l","a","t","i","o","n","s","h","i","p">>)>>
        ELSE IF numeric_columns # <<>>
        THEN <<HistogramCode(numeric_columns[1], <<"D","a","t","a"," ","A","n","a","l","y","s","i","s">>)>>
        ELSE IF categorical_columns # <<>>
        THEN <<BarCode(categorical_columns[1], <<"5">>, <<"D","a","t","a"," ","A","n","a","l","y","s","i","s">>)>>
        ELSE <<>>

\* `if fig:` and `elif error:` on what execute_plot_code returned
HasChart(ret) == ret.fig # NoneObject
HasError(ret) == ret.error # <<>> /\ ret.error[1] # <<>>

\* one element of result['multiple_plots']
PlotEntry(code, info, has_plot, plot_error, plot_info) ==
    [plot_code |-> code, info |-> info, has_plot |-> has_plot,
     plot_error |-> plot_error, plot_info |-> plot_info]

\* response.get('dashboard_sections', [])[i] if there is one, the default otherwise
SectionInfo(dashboard_sections, i) ==
    IF i < Len(dashboard_sections) THEN dashboard_sections[i + 1]
    ELSE Section(<<"A","n","a","l","y","s","i","s"," ">> \o IntToStr(i + 1), <<"D","a","t","a"," ","v","i","s","u","a","l","i","z","a","t","i","o","n">>)

\* the entry of a snippet that raised and of the positional snippet run in
\* its place (app.py:262-267)
AfterFallback(acc, code, info, ret, fallback_code, again) ==
    IF HasChart(again)
    THEN [df |-> again.df,
          plots |-> Append(acc.plots,
                       PlotEntry(fallback_code, info, TRUE, ret.error,
                                 <<"F","a","l","l","b","a","c","k"," ","v","i","s","u","a","l","i","z","a","t","i","o","n">>)),
          successful |-> acc.successful + 1]
    ELSE [df |-> again.df,
          plots |-> Append(acc.plots, PlotEntry(code, info, FALSE, ret.error, <<>>)),
          successful |-> acc.successful]

\* the entry of plot_codes[i] once execute_plot_code returned ret (app.py:253-269)
DashboardOutcome(acc, code, info, i, ret) ==
    IF HasChart(ret)
    THEN [df |-> ret.df,
          plots |-> Append(acc.plots, PlotEntry(code, info, TRUE, <<>>, ret.output)),
          successful |-> acc.successful + 1]
    ELSE IF HasError(ret)
    THEN CHOOSE next \in
             { IF fallback_code # <<>> /\ fallback_code[1] # <<>>
               THEN CHOOSE after \in
                        { AfterFallback(acc, code, info, ret, fallback_code[1], again) :
                            again \in {execute_plot_code(TextOf(fallback_code[1]), ret.df,
                                                         "terminal")} } : TRUE
               ELSE [df |-> ret.df,
                     plots |-> Append(acc.plots,
                                      PlotEntry(code, info, FALSE, ret.error, <<>>)),
                     successful |-> acc.successful] :
                 fallback_code \in {create_simple_fallback_plot(i, ret.df)} } : TRUE
    ELSE [df |-> ret.df,
          plots |-> Append(acc.plots, PlotEntry(code, info, FALSE, <<>>, <<>>)),
          successful |-> acc.successful]

\* the body of the dashboard loop for plot_codes[i] (app.py:246-269); acc holds
\* the table, the entries and successful_plots so far
DashboardStep(acc, code, i, dashboard_sections) ==
    CHOOSE next \in
        { DashboardOutcome(acc, code, info, i, ret) :
            info \in {SectionInfo(dashboard_sections, i)},
            ret \in {execute_plot_code(TextOf(code), acc.df, "terminal")} } : TRUE

\* the entry of plot_codes[i] in the multiple-plots branch (app.py:290-296)
ChartOutcome(acc, code, info, ret) ==
    [df |-> ret.df,
     plots |-> Append(acc.plots,
                  PlotEntry(code, info, HasChart(ret),
                            IF ~HasChart(ret) /\ HasError(ret) THEN ret.error ELSE <<>>,
                            IF HasChart(ret) THEN ret.output ELSE <<>>)),
     successful |-> acc.successful + (IF HasChart(ret) THEN 1 ELSE 0)]

\* the body of the loop of the multiple-plots branch (app.py:283-296)
ChartStep(acc, code, i) ==
    CHOOSE next \in
        { ChartOutcome(acc, code, [title |-> <<"C","h","a","r","t"," ">> \o IntToStr(i + 1)], ret) :
            ret \in {execute_plot_code(TextOf(code), acc.df, "terminal")} } : TRUE

\* the first n passes of the loop over plot_codes
RECURSIVE PlotLoop(_, _, _, _, _)
PlotLoop(plot_codes, n, df, is_dashboard, dashboard_sections) ==
    IF n = 0 THEN [df |-> df, plots |-> <<>>, successful |-> 0]
    ELSE CHOOSE acc \in
             { IF is_dashboard
               THEN DashboardStep(previous, plot_codes[n], n - 1, dashboard_sections)
               ELSE ChartStep(previous, plot_codes[n], n - 1) :
                 previous \in {PlotLoop(plot_codes, n - 1, df, is_dashboard,
                                        dashboard_sections)} } : TRUE

SuccessText(successful, total) ==
    <<" ","S","u","c","c","e","s","s","f","u","l","l","y"," ","g","e","n","e","r","a","t","e","d"," ">> \o IntToStr(successful) \o <<" ","o","u","t"," ","o","f"," ">> \o IntToStr(total)
    \o <<" ","v","i","s","u","a","l","i","z","a","t","i","o","n","s",".">>

\* what process_user_query returns, with the response it got and the table
\* as the snippets left it
QueryResult(response, text, has_data, is_dashboard, multiple_plots, plot, df) ==
    [response |-> response, text |-> text, has_data |-> has_data,
     is_dashboard |-> is_dashboard, multiple_plots |-> multiple_plots,
     plot |-> plot, df |-> df]

\* the result of a branch that ran the loop over plot_codes
AfterLoop(response, has_data, is_dashboard, done) ==
    QueryResult(response,
        IF is_dashboard /\ done.successful > 0
        THEN response.answer \o SuccessText(done.successful, Len(response.plot_codes))
        ELSE response.answer,
        has_data, is_dashboard, done.plots, <<>>, done.df)

\* RenderResponse that looks at requires_plot before the other two flags
RenderResponsePlotFirst(response, df, has_data) ==
    IF response.requires_plot /\ response.plot_code # <<>>
    THEN CHOOSE result \in
             { QueryResult(response, response.answer, has_data, FALSE, <<>>,
                           done.plots, done.df) :
                 done \in {ChartStep([df |-> df, plots |-> <<>>, successful |-> 0],
                                     response.plot_code, 0)} } : TRUE
    ELSE IF response.requires_dashboard \/ response.requires_multiple_plots
    THEN IF response.plot_codes = <<>>
         THEN QueryResult(response, response.answer, has_data,
                          response.requires_dashboard, <<>>, <<>>, df)
         ELSE CHOOSE result \in
                  { AfterLoop(response, has_data, response.requires_dashboard, done) :
                      done \in {PlotLoop(response.plot_codes, Len(response.plot_codes), df,
                                         response.requires_dashboard,
                                         response.dashboard_sections)} } : TRUE
    ELSE QueryResult(response, response.answer, has_data, FALSE, <<>>, <<>>, df)

\* app.py:233-316 on a response of process_query
RenderResponse(response, df, has_data) ==
    IF response.requires_dashboard \/ response.requires_multiple_plots
    THEN IF response.plot_codes = <<>>
         THEN QueryResult(response, response.answer, has_data,
                          response.requires_dashboard, <<>>, <<>>, df)
         ELSE CHOOSE result \in
                  { AfterLoop(response, has_data, response.requires_dashboard, done) :
                      done \in {PlotLoop(response.plot_codes, Len(response.plot_codes), df,
                                         response.requires_dashboard,
                                         response.dashboard_sections)} } : TRUE
    ELSE IF response.requires_plot /\ response.plot_code # <<>>
    THEN CHOOSE result \in
             { QueryResult(response, response.answer, has_data, FALSE, <<>>,
                           done.plots, done.df) :
                 done \in {ChartStep([df |-> df, plots |-> <<>>, successful |-> 0],
                                     response.plot_code, 0)} } : TRUE
    ELSE QueryResult(response, response.answer, has_data, FALSE, <<>>, <<>>, df)

\* app.py:214-320 with a data processor in the session: the context, the
\* handler's reply, the data operation, the plotting branches
process_user_query_call(query, self_model, reply, df, column_mapping, named_counts) ==
    CHOOSE result \in
        { RenderResponse(response, df,
              /\ response.requires_data
              /\ execute_data_query(df, response.data_operation, named_counts).kind
                     # "none") :
            response \in
              { process_query(self_model, reply, query, data_context).response :
                  data_context \in {get_data_context(df, column_mapping)} } } : TRUE

(***************************************************************************)
(* Specification of one user query against a loaded table                  *)
(***************************************************************************)
\* the sheets of LLMFiles, two numeric columns, two numeric columns one of
\* which has a parenthesis in its header, and dates with a gap
AskFiles ==
    LLMFiles \cup
    { [readable |-> TRUE,
       header |-> << <<"P","r","i","c","e">>, <<"U","n","i","t","s">> >>,
       data |-> << <<NumCell(1), NumCell(2)>>, <<NumCell(3), NumCell(4)>> >>],
      [readable |-> TRUE,
       header |-> << <<"S","c","o","r","e"," ","(","p","t","s",")">>, <<"A","g","e">> >>,
       data |-> << <<NumCell(1), NumCell(2)>> >>],
      [readable |-> TRUE,
       header |-> << <<"D","a","t","e">> >>,
       data |-> << <<TsCell(1)>>, <<NaNCell>> >>] }

AskQueries ==
    LLMQueries \cup { <<"D","A","S","H","B","O","A","R","D">>, <<"S","h","o","w"," ","a"," ","h","i","s","t","o","g","r","a","m">>, <<"s","c","a","t","t","e","r"," ","p","l","o","t">> }

\* the replies of ServiceReplies, and objects that set requires_plot next to
\* a flag of higher priority or next to requires_data
AskReplies ==
    ServiceReplies \cup
    { Reply(FALSE, TextOf(<<"{","\"","r","e","q","u","i","r","e","s","_","m","u","l","t","i","p","l","e","_","p","l","o","t","s","\"",":"," ","t","r","u","e",","," ","\"","r","e","q","u","i","r","e","s","_","p","l","o","t","\"",":"," ","t","r","u","e",","," ","\"","p","l","o","t","_","c","o","d","e","\"",":"," ","\"","x"," ","="," ","1","\"","}">>)),
      Reply(FALSE, TextOf(<<"{","\"","r","e","q","u","i","r","e","s","_","d","a","s","h","b","o","a","r","d","\"",":"," ","t","r","u","e",","," ","\"","r","e","q","u","i","r","e","s","_","p","l","o","t","\"",":"," ","t","r","u","e",","," ","\"","p","l","o","t","_","c","o","d","e","\"",":"," ","\"","x"," ","="," ","1","\"","}">>)),
      Reply(FALSE, TextOf(<<"{","\"","r","e","q","u","i","r","e","s","_","d","a","t","a","\"",":"," ","t","r","u","e",","," ","\"","r","e","q","u","i","r","e","s","_","p","l","o","t","\"",":"," ","t","r","u","e",","," ","\"","p","l","o","t","_","c","o","d","e","\"",":"," ","\"","x"," ","="," ","1","\"","}">>)) }

AskCalls(self_model) ==
    IF self_model = "none"
    THEN { [user_query |-> q, reply |-> NoReply] : q \in AskQueries }
    ELSE { [user_query |-> q, reply |-> r] :
             q \in {DashboardQuery, <<"h","e","l","l","o">>}, r \in AskReplies }

AskInit ==
    /\ \E f \in AskFiles :
         LET dp == DataProcessor(f)
         IN  /\ self_original_file = f
             /\ loaded = "ok"
             /\ self_df = dp.df
             /\ self_column_mapping = dp.column_mapping
    /\ llm_model \in {"none", "gemini"}
    /\ llm_log = <<>>
    /\ ask_result = <<>>
    /\ PlotIdle
    /\ QueryIdle
    /\ NormIdle
    /\ SessionIdle

\* app.py:214-320, one query
ProcessUserQuery ==
    /\ ask_result = <<>>
    /\ \E call \in AskCalls(llm_model), named_counts \in BOOLEAN :
         \E out \in {process_user_query_call(call.user_query, llm_model, call.reply,
                                             self_df, self_column_mapping,
                                             named_counts)} :
            /\ ask_result' = <<[user_query |-> call.user_query, reply |-> call.reply,
                               response |-> out.response, text |-> out.text,
                               has_data |-> out.has_data,
                               is_dashboard |-> out.is_dashboard,
                               multiple_plots |-> out.multiple_plots,
                               plot |-> out.plot]>>
            /\ self_df' = out.df
    /\ UNCHANGED <<self_original_file, loaded, self_column_mapping>>
    /\ UNCHANGED <<llm_model, llm_log>>
    /\ UNCHANGED <<norm_vars, query_vars, plot_vars, session_vars>>

AskNext == ProcessUserQuery

SpecAsk == AskInit /\ [][AskNext]_vars

(***************************************************************************)
(* The upload block of main (app.py:459-472)                               *)
(***************************************************************************)
\* the object DataProcessor(uploaded_file) leaves in the session
ProcessorObject(uploaded_file, dp) ==
    [original_file |-> uploaded_file, df |-> dp.df, column_mapping |-> dp.column_mapping]

\* what the try/except around DataProcessor(uploaded_file) leaves: dp is what
\* the constructor came to, failed_flag the data_uploaded of the except branch
UploadOutcome(uploaded_file, dp, data_processor, failed_flag) ==
    IF dp.raised
    THEN [data_processor |-> data_processor, data_uploaded |-> failed_flag,
          attempt |-> "failed"]
    ELSE [data_processor |-> <<ProcessorObject(uploaded_file, dp)>>,
          data_uploaded |-> TRUE, attempt |-> "ok"]

\* the except branch leaves data_uploaded as it was
UploadBlockKeepingFlag(uploaded, data_processor, data_uploaded) ==
    IF uploaded = <<>>
    THEN [data_processor |-> data_processor, data_uploaded |-> data_uploaded,
          attempt |-> "none"]
    ELSE UploadOutcome(uploaded[1], DataProcessor(uploaded[1]), data_processor,
                       data_uploaded)

\* uploaded is the widget's value; the result is the session's data_processor
\* and data_uploaded after the block, and what the attempt came to
UploadBlock(uploaded, data_processor, data_uploaded) ==
    IF uploaded = <<>>
    THEN [data_processor |-> data_processor, data_uploaded |-> data_uploaded,
          attempt |-> "none"]
    ELSE UploadOutcome(uploaded[1], DataProcessor(uploaded[1]), data_processor, FALSE)

(***************************************************************************)
(* process_user_query (app.py:214-320)                                     *)
(* A snippet is reduced to what its execution comes to: it binds fig, ends *)
(* without fig, or raises; and whether it empties the table it is handed   *)
(* (df.drop(df.index, inplace=True)) before that.                          *)
(***************************************************************************)
Snippet(outcome, mutates) == [outcome |-> outcome, mutates |-> mutates]

\* execute_plot_code(code, df): exec runs on the session's table itself
RunSnippet(snippet, df) ==
    [fig   |-> snippet.outcome = "fig",
     error |-> snippet.outcome # "fig",
     df    |-> IF snippet.mutates THEN [df EXCEPT !.rows = <<>>] ELSE df]

\* _create_simple_fallback_plot returns code when the table has a numeric or
\* a text column, None otherwise
HasFallbackPlot(df) ==
    \E p \in 1..Len(df.columns) : df.dtypes[p] \in {"int64", "float64", "object"}

\* the loop over plot_codes of the dashboard branch (with_fallback) and of the
\* multiple-plots branch; each entry of plots is "plot", "fallback" or "error"
RECURSIVE RunPlotCodes(_, _, _, _, _)
RunPlotCodes(plot_codes, i, df, with_fallback, plots) ==
    IF i > Len(plot_codes) THEN [df |-> df, plots |-> plots]
    ELSE LET run == RunSnippet(plot_codes[i], df)
             entry == IF run.fig THEN "plot"
                      ELSE IF with_fallback /\ HasFallbackPlot(run.df) THEN "fallback"
                      ELSE "error"
         IN  RunPlotCodes(plot_codes, i + 1, run.df, with_fallback, Append(plots, entry))

\* the content of a chat entry: its text, whether it carries a data result,
\* the outcome of each plot, the dashboard flag
Content(text, has_data, plots, is_dashboard) ==
    [text |-> text, has_data |-> has_data, plots |-> plots, is_dashboard |-> is_dashboard]

\* a reply of LLMHandler.process_query: via is "model" or "fallback" (the
\* external call failed or no model is configured)
Response(via) ==
    [via |-> via, requires_data |-> FALSE, data_operation |-> Operation(""),
     requires_dashboard |-> FALSE, requires_multiple_plots |-> FALSE,
     requires_plot |-> FALSE, plot_codes |-> ListOf(<<>>), plot_code |-> <<>>]

\* the plotting branches (app.py:233-316): has_data says whether the data
\* operation left a result; returns the content of the reply and the table
\* as the snippets left it
PlotBranches(df, response, has_data) ==
    IF response.requires_dashboard \/ response.requires_multiple_plots THEN
        IF response.plot_codes.kind = "malformed"
        THEN [content |-> Content("error", FALSE, <<>>, FALSE), df |-> df]
        ELSE [content |-> Content("answer", has_data,
                                  RunPlotCodes(response.plot_codes.items, 1, df,
                                               response.requires_dashboard, <<>>).plots,
                                  response.requires_dashboard),
              df |-> RunPlotCodes(response.plot_codes.items, 1, df,
                                  response.requires_dashboard, <<>>).df]
    ELSE IF response.requires_plot /\ response.plot_code # <<>> THEN
        [content |-> Content("answer", has_data,
                             <<IF RunSnippet(response.plot_code[1], df).fig
                               THEN "plot" ELSE "error">>, FALSE),
         df |-> RunSnippet(response.plot_code[1], df).df]
    ELSE [content |-> Content("answer", has_data, <<>>, FALSE), df |-> df]

process_user_query(data_processor, response, named_counts) ==
    PlotBranches(data_processor.df, response,
        /\ response.requires_data
        /\ execute_data_query(data_processor.df, response.data_operation,
                              named_counts).kind # "none")

(***************************************************************************)
(* Specification of a session: every action is one run of main() on a user *)
(* event (followed by the run st.rerun() starts, where the code calls it)  *)
(***************************************************************************)
\* an unreadable upload, one whose headers collide after canonicalization,
\* and two that load
SessionFiles ==
    { UnreadableFile,
      [readable |-> TRUE, header |-> << <<"A">>, <<"a">> >>, data |-> <<>>],
      [readable |-> TRUE, header |-> << <<"X">>, <<"N","a","m","e">> >>,
       data |-> << <<NumCell(1), StrCell(<<"a">>)>> >>],
      [readable |-> TRUE, header |-> << <<"C","o","u","n","t">> >>,
       data |-> << <<NumCell(2)>> >>] }

GoodSnippet     == Snippet("fig", FALSE)
NoFigSnippet    == Snippet("nofig", FALSE)
FailingSnippet  == Snippet("raise", FALSE)
MutatingSnippet == Snippet("raise", TRUE)

SessionResponses ==
    { Response(via) : via \in {"model", "fallback"} }
    \cup { [Response("model") EXCEPT !.requires_data = TRUE, !.data_operation = op] :
             op \in { Operation("statistical_summary"), NotADict,
                      [Operation("group_by") EXCEPT !.group_column = CountLabel] } }
    \cup { [Response("model") EXCEPT !.requires_plot = TRUE, !.plot_code = <<code>>] :
             code \in {GoodSnippet, NoFigSnippet, FailingSnippet, MutatingSnippet} }
    \cup { [Response("model") EXCEPT !.requires_multiple_plots = TRUE,
                                     !.plot_codes = ListOf(<<GoodSnippet, FailingSnippet>>)],
           [Response("fallback") EXCEPT !.requires_dashboard = TRUE,
                                        !.plot_codes = ListOf(<<FailingSnippet, MutatingSnippet>>)],
           [Response("model") EXCEPT !.requires_dashboard = TRUE,
                                     !.plot_codes = Malformed] }

SessionInit ==
    /\ SessionIdle
    /\ NormIdle
    /\ LoadIdle
    /\ QueryIdle
    /\ PlotIdle
    /\ LLMIdle

\* the sidebar of one script run: the widget's value goes through the upload block
RunSidebar(uploaded) ==
    \E up \in {UploadBlock(uploaded, st_data_processor, st_data_uploaded)} :
        /\ widget_file' = uploaded
        /\ st_data_processor' = up.data_processor
        /\ st_data_uploaded' = up.data_uploaded
        /\ last_upload' = IF up.attempt = "none" THEN last_upload ELSE up.attempt

\* the user picks a file in the uploader
UploadFile ==
    /\ \E f \in SessionFiles : RunSidebar(<<f>>)
    /\ UNCHANGED st_chat_history
    /\ UNCHANGED <<norm_vars, load_vars, query_vars, plot_vars, llm_vars>>

\* the user removes the file from the uploader
RemoveFile ==
    /\ widget_file # <<>>
    /\ RunSidebar(<<>>)
    /\ UNCHANGED st_chat_history
    /\ UNCHANGED <<norm_vars, load_vars, query_vars, plot_vars, llm_vars>>

UserEntry(text) == [is_user |-> TRUE, content |-> Content(text, FALSE, <<>>, FALSE)]

AssistantEntry(content) == [is_user |-> FALSE, content |-> content]

\* QueryTurn that appends no reply when process_user_query ended in its
\* except branch
QueryTurnDroppingFailedReply(text, rerun) ==
    /\ st_data_uploaded
    /\ Len(st_chat_history) + 2 <= 2 * MaxTurns
    /\ \E up \in {UploadBlock(widget_file, st_data_processor, st_data_uploaded)} :
         /\ up.data_uploaded
         /\ \E response \in SessionResponses, named_counts \in BOOLEAN :
              \E out \in {process_user_query(up.data_processor[1], response, named_counts)} :
                \E again \in
                     { IF rerun
                       THEN UploadBlock(widget_file,
                                <<[up.data_processor[1] EXCEPT !.df = out.df]>>,
                                up.data_uploaded)
                       ELSE [data_processor |->
                                 <<[up.data_processor[1] EXCEPT !.df = out.df]>>,
                             data_uploaded |-> up.data_uploaded,
                             attempt |-> up.attempt] } :
                  /\ st_chat_history' =
                         IF out.content.text = "error"
                         THEN st_chat_history \o <<UserEntry(text)>>
                         ELSE st_chat_history
                              \o <<UserEntry(text), AssistantEntry(out.content)>>
                  /\ st_data_processor' = again.data_processor
                  /\ st_data_uploaded' = again.data_uploaded
                  /\ last_upload' = IF again.attempt = "none" THEN last_upload
                                    ELSE again.attempt
    /\ UNCHANGED widget_file
    /\ UNCHANGED <<norm_vars, load_vars, query_vars, plot_vars, llm_vars>>

\* one run of main() answering a query: the sidebar, then the two appends
\* around process_user_query; rerun says whether st.rerun() follows, which
\* runs the sidebar once more
QueryTurn(text, rerun) ==
    /\ st_data_uploaded
    /\ Len(st_chat_history) + 2 <= 2 * MaxTurns
    /\ \E up \in {UploadBlock(widget_file, st_data_processor, st_data_uploaded)} :
         /\ up.data_uploaded
         /\ \E response \in SessionResponses, named_counts \in BOOLEAN :
              \E out \in {process_user_query(up.data_processor[1], response, named_counts)} :
                \E again \in
                     { IF rerun
                       THEN UploadBlock(widget_file,
                                <<[up.data_processor[1] EXCEPT !.df = out.df]>>,
                                up.data_uploaded)
                       ELSE [data_processor |->
                                 <<[up.data_processor[1] EXCEPT !.df = out.df]>>,
                             data_uploaded |-> up.data_uploaded,
                             attempt |-> up.attempt] } :
                  /\ st_chat_history' =
                         st_chat_history \o <<UserEntry(text), AssistantEntry(out.content)>>
                  /\ st_data_processor' = again.data_processor
                  /\ st_data_uploaded' = again.data_uploaded
                  /\ last_upload' = IF again.attempt = "none" THEN last_upload
                                    ELSE again.attempt
    /\ UNCHANGED widget_file
    /\ UNCHANGED <<norm_vars, load_vars, query_vars, plot_vars, llm_vars>>

\* app.py:483-500
TypedQuery == QueryTurn("typed", FALSE)

\* app.py:543-557
CreateDashboardButton == QueryTurn("dashboard", TRUE)

\* app.py:559-573
MultipleChartsButton == QueryTurn("charts", TRUE)

\* app.py:575-589
DataSummaryButton == QueryTurn("summary", TRUE)

\* app.py:591-637: the overview is built without the language model, from at
\* most one histogram and one bar chart
SimpleOverviewButton ==
    /\ st_data_uploaded
    /\ Len(st_chat_history) + 2 <= 2 * MaxTurns
    /\ \E up \in {UploadBlock(widget_file, st_data_processor, st_data_uploaded)} :
         /\ up.data_uploaded
         /\ \E df \in {up.data_processor[1].df} :
              st_chat_history' = st_chat_history \o
                  <<UserEntry("overview"),
                    AssistantEntry(Content("overview", FALSE,
                        (IF NumericColumns(df) # <<>> THEN <<"plot">> ELSE <<>>)
                        \o (IF \E p \in 1..Len(df.columns) : df.dtypes[p] = "object"
                            THEN <<"plot">> ELSE <<>>),
                        TRUE))>>
         /\ \E again \in {UploadBlock(widget_file, up.data_processor, up.data_uploaded)} :
              /\ st_data_processor' = again.data_processor
              /\ st_data_uploaded' = again.data_uploaded
              /\ last_upload' = IF again.attempt = "none" THEN last_upload
                                ELSE again.attempt
    /\ UNCHANGED widget_file
    /\ UNCHANGED <<norm_vars, load_vars, query_vars, plot_vars, llm_vars>>

\* app.py:640-645
ClearChatHistory ==
    /\ st_data_uploaded
    /\ \E up \in {UploadBlock(widget_file, st_data_processor, st_data_uploaded)} :
         /\ up.data_uploaded
         /\ st_chat_history' = <<>>
         /\ st_data_processor' = up.data_processor
         /\ st_data_uploaded' = up.data_uploaded
         /\ last_upload' = IF up.attempt = "none" THEN last_upload ELSE up.attempt
    /\ UNCHANGED widget_file
    /\ UNCHANGED <<norm_vars, load_vars, query_vars, plot_vars, llm_vars>>

Next ==
    \/ UploadFile
    \/ RemoveFile
    \/ TypedQuery
    \/ CreateDashboardButton
    \/ MultipleChartsButton
    \/ DataSummaryButton
    \/ SimpleOverviewButton
    \/ ClearChatHistory

Spec == SessionInit /\ [][Next]_vars


(***************************************************************************)
(* Canonical names, as spec section 3 states the Table invariant           *)
(***************************************************************************)
IsCanonicalName(name) ==
    /\ name # <<>>
    /\ \A i \in 1..Len(name) : IsCanonicalChar(name[i])
    /\ name[1] # "_"
    /\ name[Len(name)] # "_"
    /\ \A i \in 1..(Len(name) - 1) : ~(name[i] = "_" /\ name[i + 1] = "_")

\* C1: every column name produced by header repair followed by
\* canonicalization is non-empty, made of [a-z0-9_] only, and has no leading,
\* trailing or doubled underscore, for every sequence of raw headers.
C1_NamesCanonical ==
    norm_pc \in {"normalized", "again"} =>
        \A p \in 1..Len(normalized) : IsCanonicalName(normalized[p])

\* C3 as stated: the two-step Normalizer (repair, then canonicalization)
\* applied to its own output returns it unchanged, position by position.
C3_NormalizerIdempotent ==
    norm_pc = "again" => renormalized = normalized

\* C3 as amended: canonicalization alone is idempotent on every header row, and
\* the two-step Normalizer returns unchanged every canonical name that the
\* repair step does not take for a missing one (empty, all digits, "nan").
C3_CanonicalizationIdempotent ==
    norm_pc = "again" =>
        /\ recanonical = normalized
        /\ Len(renormalized) = Len(normalized)
        /\ \A p \in 1..Len(normalized) :
               ~IsMissingName(normalized[p]) => renormalized[p] = normalized[p]

\* a row of two headers that canonicalization rewrote and the second pass kept,
\* next to one the repair step renames on the second pass
C3_Witness ==
    /\ norm_pc = "again"
    /\ Len(normalized) = 2
    /\ normalized[1] # new_columns[1]
    /\ ~IsMissingName(normalized[1])
    /\ renormalized[1] = normalized[1]
    /\ IsDigit(normalized[2])
    /\ renormalized[2] # normalized[2]
    /\ recanonical = normalized

\* C2: after every successful load the column names of the loaded table are
\* pairwise distinct, whatever the header row of the file.
C2_ColumnsDistinct ==
    loaded = "ok" =>
        \A p, q \in 1..Len(self_df.columns) :
            p # q => self_df.columns[p] # self_df.columns[q]

\* a successful load of a file whose header row repeats a header
C2_Witness ==
    /\ loaded = "ok"
    /\ Len(self_df.columns) >= 2
    /\ HasDuplicateLabels(self_original_file.header)

\* C4: after every successful load the column mapping has as many entries as
\* the table has columns, maps the canonical name at each position to the
\* header read_excel reports at that position, and is one-to-one.
C4_MappingPositional ==
    loaded = "ok" =>
        LET original == ReadHeaders(self_original_file.header)
        IN  /\ Cardinality(DOMAIN self_column_mapping) = Len(self_df.columns)
            /\ Len(original) = Len(self_df.columns)
            /\ \A p \in 1..Len(self_df.columns) :
                   /\ self_df.columns[p] \in DOMAIN self_column_mapping
                   /\ self_column_mapping[self_df.columns[p]] = original[p]
            /\ \A j, k \in DOMAIN self_column_mapping :
                   j # k => self_column_mapping[j] # self_column_mapping[k]

\* a successful load of three or more columns, one of them read from a blank
\* header cell and so mapped to pandas' "Unnamed: <k>" marker
C4_Witness ==
    /\ loaded = "ok"
    /\ Len(self_df.columns) >= 3
    /\ \E p \in 1..Len(self_df.columns) :
           /\ self_original_file.header[p] = <<>>
           /\ self_column_mapping[self_df.columns[p]] = UnnamedMarker(p - 1)

(***************************************************************************)
(* Claims about the session                                                *)
(***************************************************************************)
\* C5: after an upload whose parse failed, whatever was loaded before it,
\* the session's data_processor is unset.
C5_FailedUploadLeavesNoTable ==
    last_upload = "failed" => st_data_processor = <<>>

\* the upload the session's table was loaded from: <<>> or <<file>>
TableSource ==
    IF st_data_processor = <<>> THEN <<>> ELSE <<st_data_processor[1].original_file>>

\* a run of main() that answers a query
QueryEvent ==
    \/ TypedQuery
    \/ CreateDashboardButton
    \/ MultipleChartsButton
    \/ DataSummaryButton
    \/ SimpleOverviewButton

\* C6: in every reachable session state the chat interface accepts queries
\* if and only if the most recent upload attempt succeeded, and no query,
\* whatever fails while it is answered (data operation, external service,
\* snippet), disables the chat or changes which table is loaded.
C6_ChatIffLastUploadOk ==
    /\ [](st_data_uploaded <=> last_upload = "ok")
    /\ [][QueryEvent =>
            /\ st_data_uploaded' = st_data_uploaded
            /\ TableSource' = TableSource]_vars

\* the chat is open after a successful upload and the last turn failed: the
\* reply is the error text, or one of its plots is an error
C6_Witness ==
    /\ st_data_uploaded
    /\ last_upload = "ok"
    /\ st_chat_history # <<>>
    /\ LET reply == st_chat_history[Len(st_chat_history)].content
       IN  \/ reply.text = "error"
           \/ \E k \in 1..Len(reply.plots) : reply.plots[k] = "error"

(***************************************************************************)
(* Claims about the query executor                                         *)
(***************************************************************************)
\* C7: execute_data_query never raises to its caller: whatever the operation
\* (any type tag, unknown or missing, any parameters, malformed ones
\* included) it returns a result or None, and an operation that fails
\* inside yields None.
C7_NeverRaises ==
    query_result # <<>> =>
        /\ query_result[1].kind \in {"table", "none"}
        /\ (\A named_counts \in BOOLEAN :
                Dispatch(self_df, query_operation[1], named_counts).kind = "raise")
             => query_result[1] = NoneResult

\* a filter whose comparison pandas rejects, a group_by that cannot build its
\* result, or a parameter of the wrong type: the call returned None
C7_Witness ==
    /\ query_result # <<>>
    /\ query_operation[1].type \in {"filter", "group_by", "correlation"}
    /\ Len(self_df.rows) > 0
    /\ Dispatch(self_df, query_operation[1], TRUE).kind = "raise"
    /\ query_result[1] = NoneResult

\* the operators the filter contract lists
FilterOperators == {"==", "!=", ">", "<", ">=", "<=", "contains"}

\* a row satisfies a condition as the contract reads it: comparisons by
\* value, `contains` as a case-insensitive substring test on the cell's text
\* that a missing cell never passes
Satisfies(df, cond, row) ==
    LET p     == ColumnIndex(df, cond.column)
        cell  == row[p]
        value == cond.condition.value
    IN  IF cond.condition.operator = "contains"
        THEN /\ ~IsNa(cell)
             /\ Contains(Lower(CellText(cell, df.dtypes[p])), Lower(ValueText(value)))
        ELSE Keeps(cond.condition.operator, cell, df.dtypes[p], value)

\* C8: filter(conditions) returns exactly the rows of the table that satisfy
\* every condition on a column the table has (conditions on absent columns
\* are skipped), in their original order.
C8_FilterExact ==
    (/\ query_result # <<>>
     /\ query_operation[1].is_dict
     /\ query_operation[1].type = "filter"
     /\ query_operation[1].conditions.kind = "list"
     /\ \A k \in 1..Len(query_operation[1].conditions.items) :
            /\ query_operation[1].conditions.items[k].condition.is_dict
            /\ query_operation[1].conditions.items[k].condition.operator
                   \in FilterOperators)
    => LET conds == query_operation[1].conditions.items
           expected ==
               SelectSeq([r \in 1..Len(self_df.rows) |-> r],
                         LAMBDA r : \A k \in 1..Len(conds) :
                             HasColumn(self_df, conds[k].column)
                                 => Satisfies(self_df, conds[k], self_df.rows[r]))
       IN  query_result[1] = RowsResult(self_df, expected)

\* the distinct non-missing values of the column labelled name
DistinctValues(df, name) ==
    LET cells == ColumnCells(df, ColumnIndex(df, name))
    IN  { cells[r] : r \in { q \in 1..Len(cells) : ~IsNa(cells[q]) } }

\* C9: for a group_column the table has, group_by without agg_column returns
\* one row per distinct value of group_column, each with that value's group
\* size in a column named 'count'.
C9_GroupSizes ==
    (/\ query_result # <<>>
     /\ query_operation[1].is_dict
     /\ query_operation[1].type = "group_by"
     /\ query_operation[1].agg_column = <<>>
     /\ HasColumn(self_df, query_operation[1].group_column))
    => LET g     == query_operation[1].group_column
           cells == ColumnCells(self_df, ColumnIndex(self_df, g))
           res   == query_result[1]
       IN  /\ res.kind = "table"
           /\ res.columns = <<g, CountLabel>>
           /\ Len(res.rows) = Cardinality(DistinctValues(self_df, g))
           /\ \A k \in 1..Len(res.rows) :
                  /\ res.rows[k][1] \in DistinctValues(self_df, g)
                  /\ res.rows[k][2] = NumCell(Count(cells, res.rows[k][1]))

\* the numeric columns of the table that a correlation request selects
QualifyingColumns(df, columns) ==
    { col \in SeqRange(NumericColumnNames(df)) :
        columns = <<>> \/ col \in SeqRange(columns) }

\* C10: correlation(columns) returns an empty table whenever fewer than two
\* numeric columns of the table qualify, whatever the supplied list (empty,
\* with absent or non-numeric names, or naming one numeric column twice).
C10_CorrelationEmpty ==
    (/\ query_result # <<>>
     /\ query_operation[1].is_dict
     /\ query_operation[1].type = "correlation"
     /\ query_operation[1].columns.kind = "list"
     /\ Cardinality(QualifyingColumns(self_df, query_operation[1].columns.items)) < 2)
    => query_result[1] = EmptyResult

\* the query text of a custom_query call names a deny-listed word, in any
\* letter case
NamesForbiddenKeyword(text) ==
    \E keyword \in forbidden_keywords :
        \E i \in 0..(Len(text) - Len(keyword)) :
            \A j \in 1..Len(keyword) : LowerChar(text[i + j]) = keyword[j]

\* C11: custom_query returns an empty table, whatever evaluating the text
\* would give, whenever the text contains drop, delete, insert, update, exec
\* or eval in any letter case; and an accepted query whose evaluation fails
\* yields an empty table, never an exception or None.
C11_CustomQueryDenyList ==
    (/\ query_result # <<>>
     /\ query_operation[1].is_dict
     /\ query_operation[1].type = "custom_query")
    => /\ query_result[1].kind = "table"
       /\ query_operation[1].query.kind = "str" =>
            LET text == query_operation[1].query.items
            IN  /\ NamesForbiddenKeyword(text) => query_result[1] = EmptyResult
                /\ DfQuery(self_df, text).kind = "raise" => query_result[1] = EmptyResult

\* a well-formed query that would select a row is rejected for the word in
\* its column name
C11_Witness ==
    /\ query_result # <<>>
    /\ query_operation[1].type = "custom_query"
    /\ query_operation[1].query.kind = "str"
    /\ NamesForbiddenKeyword(query_operation[1].query.items)
    /\ DfQuery(self_df, query_operation[1].query.items).kind = "table"
    /\ DfQuery(self_df, query_operation[1].query.items).rows # <<>>
    /\ query_result[1] = EmptyResult

(***************************************************************************)
(* Claims about execute_plot_code                                          *)
(***************************************************************************)
\* the snippet as handed to exec
PlotCleaned == CleanedCode(plot_code[1], plot_df)

\* the frame exec left behind, for a snippet that is a text
PlotFrame == Exec(PlotCleaned, plot_df)

SnippetRaised ==
    /\ plot_result # <<>>
    /\ plot_code[1].kind = "str"
    /\ PlotFrame.raised

\* C12: when the snippet raises, the call returns a null chart, an empty
\* captured output and a non-empty error text that contains the exception's
\* text and the snippet as rewritten by the cleaning and the column-name repair
C12_ErrorNamesRewrittenSnippet ==
    SnippetRaised =>
        /\ plot_result[1].fig = NoneObject
        /\ plot_result[1].output = <<>>
        /\ plot_result[1].error # <<>>
        /\ plot_result[1].error[1] # <<>>
        /\ Contains(plot_result[1].error[1], PlotFrame.message)
        /\ Contains(plot_result[1].error[1], PlotCleaned)

SnippetCompleted ==
    /\ plot_result # <<>>
    /\ plot_code[1].kind = "str"
    /\ ~PlotFrame.raised

\* C13: no call returns both a chart and an error; a snippet that runs to its
\* end and binds fig to a chart returns that chart and no error
C13_ChartOrError ==
    plot_result # <<>> =>
        /\ ~(plot_result[1].fig # NoneObject /\ plot_result[1].error # <<>>)
        /\ (SnippetCompleted /\ PlotFrame.has_fig /\ PlotFrame.fig # NoneObject) =>
               /\ plot_result[1].fig = PlotFrame.fig
               /\ plot_result[1].error = <<>>

\* fig = px.bar(x=[1,2], y=[3,4]) returned its chart and no error
C13_Witness ==
    /\ plot_result # <<>>
    /\ plot_code[1] = TextOf(FigLiteralStmt)
    /\ plot_result[1].fig = Figure
    /\ plot_result[1].error = <<>>

\* C14: a snippet that runs to its end without binding fig (also when the
\* cleaning removed every line) returns a null chart and an error text that
\* says no fig was found
C14_NoFigIsSoftFailure ==
    (SnippetCompleted /\ ~PlotFrame.has_fig) =>
        /\ plot_result[1].fig = NoneObject
        /\ plot_result[1].error # <<>>
        /\ StartsWith(plot_result[1].error[1], NoFigPrefix)

\* the cleaning removed every line of a non-empty snippet
C14_Witness ==
    /\ SnippetCompleted
    /\ plot_code[1].items # <<>>
    /\ PlotCleaned = <<>>
    /\ plot_result[1].fig = NoneObject
    /\ plot_result[1].error = <<NoFigPrefix>>

\* the variants of a column name the repair recognises, other than the name
ClaimedVariants(c) ==
    { Upper(c), Title(c),
      Lower(UnderscoreToSpace(c)), Upper(UnderscoreToSpace(c)),
      Title(UnderscoreToSpace(c)) } \ {c}

Quoted(q, name) == <<q>> \o name \o <<q>>

\* the quoted variants of the column names, each with the text that replaces it
QuotedVariants(columns) ==
    { [old |-> Quoted(q, v), new |-> Quoted(q, columns[p])] :
        <<p, q, v>> \in { t \in (1..Len(columns)) \X {SingleQuote, DoubleQuote}
                                  \X UNION { ClaimedVariants(columns[k]) : k \in 1..Len(columns) } :
                            t[3] \in ClaimedVariants(columns[t[1]]) } }

\* one pass over the text that rewrites each quoted variant where it starts
RECURSIVE RewriteQuoted(_, _)
RewriteQuoted(text, variants) ==
    LET starts == UNION { StartsOf(text, h.old) : h \in variants }
    IN  IF starts = {} THEN text
        ELSE LET i == CHOOSE j \in starts : \A k \in starts : j <= k
                 h == CHOOSE x \in variants : i \in StartsOf(text, x.old)
             IN  SubSeq(text, 1, i - 1) \o h.new
                 \o RewriteQuoted(SubSeq(text, i + Len(h.old), Len(text)), variants)

\* the snippet after cleaning, before the repair
PlotUnrepaired == JoinCleanLines(CleanLines(plot_code[1].items))

\* places of the quotes of `text`
QuotePlaces(text) == { i \in 1..Len(text) : text[i] \in {SingleQuote, DoubleQuote} }

\* two quoted names that share a quote, as in 'COUNTRY'COUNTRY': three
\* quotes of one kind in a row, with text before and after the middle one
SharesQuoteIn(text, places) ==
    \E j \in places :
        /\ \E i \in places :
               /\ i + 1 < j /\ text[i] = text[j]
               /\ \A m \in places : ~(i < m /\ m < j)
        /\ \E k \in places :
               /\ j + 1 < k /\ text[k] = text[j]
               /\ \A m \in places : ~(j < m /\ m < k)

SharesQuote == \E text \in {PlotUnrepaired} : SharesQuoteIn(text, QuotePlaces(text))

C16_NamespaceClosed ==
    plot_result # <<>> =>
        /\ SafeGlobalsNames = {"df", "px", "go", "np"} \cup BuiltinAllowList
        /\ \A name \in SafeGlobalsNames : Capabilities(name) = {}
        /\ plot_effects = {}

(***************************************************************************)
(* Claim about the header repair                                           *)
(***************************************************************************)
\* the text has the form 'Unnamed: <k>'
IsUnnamedForm(t) ==
    /\ StartsWith(t, UnnamedPrefix \o <<" ">>)
    /\ IsDigit(SubSeq(t, Len(UnnamedPrefix) + 2, Len(t)))

\* the trimmed header is one the repair is said to replace
IsPlaceholderCase(t) ==
    \/ t = <<>>
    \/ IsDigit(t)
    \/ Lower(t) \in {Lower(NanText), Lower(NoneText)}
    \/ IsUnnamedForm(t)

\* C20: the repair puts 'Column <i+1>' at 0-based position i exactly when the
\* trimmed header is empty, all digits, 'nan' or 'none' in any letter case, or
\* of the form 'Unnamed: <k>', and keeps the trimmed text of every other header
C20_RepairExact ==
    norm_pc # "raw" =>
        /\ Len(new_columns) = Len(raw_headers)
        /\ \A p \in 1..Len(raw_headers) :
             new_columns[p] = IF IsPlaceholderCase(Strip(raw_headers[p]))
                              THEN ColumnPlaceholder(p - 1)
                              ELSE Strip(raw_headers[p])

(***************************************************************************)
(* Claims about LLMHandler.process_query                                   *)
(***************************************************************************)
\* the call reached the service and got a text back
GotText(entry) ==
    /\ llm_model = "gemini"
    /\ ~entry.reply.raises
    /\ entry.reply.text.kind = "str"

\* the text of the reply holds a JSON object that parses
HoldsJson(entry) ==
    /\ JsonMatch(entry.reply.text.items) # <<>>
    /\ json_loads(JsonMatch(entry.reply.text.items)[1]).ok

\* the keys of the object the reply holds
SentKeys(entry) == DOMAIN json_loads(JsonMatch(entry.reply.text.items)[1]).dict

\* the call took the rule-based path
TookFallback(entry) == ~GotText(entry)

FlagKeys ==
    {"requires_data", "requires_plot", "requires_multiple_plots", "requires_dashboard"}

\* C17: every response process_query returns has the nine keys; an optional
\* key the reply's JSON object left out is false or empty; and a reply without
\* a JSON object that parses gives its whole text as the answer with the four
\* flags false
C17_ResponseShape ==
    \A k \in 1..Len(llm_log) :
        ~llm_log[k].raised =>
            /\ ResponseKeys \subseteq DOMAIN llm_log[k].response
            /\ (GotText(llm_log[k]) /\ HoldsJson(llm_log[k])) =>
                   \A name \in (ResponseKeys \ {"answer"}) \ SentKeys(llm_log[k]) :
                       llm_log[k].response[name] = PlainResponse(<<>>)[name]
            /\ (GotText(llm_log[k]) /\ ~HoldsJson(llm_log[k])) =>
                   /\ llm_log[k].response.answer = llm_log[k].reply.text.items
                   /\ \A name \in FlagKeys : llm_log[k].response[name] = FALSE

\* one call answered by an object that sets requires_plot and plot_code only,
\* another by a brace pair that does not parse
C17_Witness ==
    /\ Len(llm_log) = 2
    /\ GotText(llm_log[1]) /\ HoldsJson(llm_log[1])
    /\ SentKeys(llm_log[1]) = {"requires_plot", "plot_code"}
    /\ llm_log[1].response.requires_plot = TRUE
    /\ llm_log[1].response.requires_dashboard = FALSE
    /\ llm_log[1].response.plot_codes = <<>>
    /\ GotText(llm_log[2]) /\ JsonMatch(llm_log[2].reply.text.items) # <<>>
    /\ ~HoldsJson(llm_log[2])
    /\ llm_log[2].response.answer = llm_log[2].reply.text.items

ServiceUnavailable ==
    ask_result # <<>> /\ (llm_model = "none" \/ ask_result[1].reply.raises)

AsksDashboard ==
    ask_result # <<>>
    /\ Contains(Lower(ask_result[1].user_query), <<"d","a","s","h","b","o","a","r","d">>)

ChartsRendered ==
    { k \in 1..Len(ask_result[1].multiple_plots) : ask_result[1].multiple_plots[k].has_plot }

\* C19: with the service unavailable, a query containing 'dashboard' against
\* a loaded table with at least one column gets a response with a non-empty
\* plot_codes and process_user_query renders at least one chart from it
C19_FallbackDashboardRenders ==
    (ServiceUnavailable /\ AsksDashboard /\ Len(self_df.columns) >= 1) =>
        /\ ask_result[1].response.plot_codes # <<>>
        /\ ChartsRendered # {}

(***************************************************************************)
(* Claims about DataProcessor._clean_data                                  *)
(***************************************************************************)
\* the cells of column p as read_excel parsed them, before cleaning
RawCells(p) == ColumnCells(read_excel(self_original_file).df, p)

RawDtype(p) == read_excel(self_original_file).df.dtypes[p]

\* the cells of column p that pd.to_numeric converts
ConvertibleCount(p) ==
    Cardinality({ r \in 1..Len(RawCells(p)) : ~IsNa(ToNumericCell(RawCells(p)[r])) })

\* column p of the loaded table holds the coerced values
HoldsCoerced(p) ==
    /\ self_df.dtypes[p] \in {"int64", "float64"}
    /\ ColumnCells(self_df, p) = [r \in 1..Len(RawCells(p)) |-> ToNumericCell(RawCells(p)[r])]

\* C21: after a load, a textual column (one that is not a date column) holds
\* its numerically coerced values if and only if at least 80% of its cells
\* convert to a number, and keeps its cells as read otherwise
C21_ConvertedIffEightyPercent ==
    loaded = "ok" =>
        \A p \in 1..Len(self_df.columns) :
            (/\ RawDtype(p) = "object"
             /\ Len(RawCells(p)) > 0
             /\ ~IsDateColumn(self_df.columns[p]))
            => /\ HoldsCoerced(p) <=> 5 * ConvertibleCount(p) >= 4 * Len(RawCells(p))
               /\ ~HoldsCoerced(p) => ColumnCells(self_df, p) = RawCells(p)

(***************************************************************************)
(* Claims about the cleaning of the snippet                                *)
(***************************************************************************)
\* the lines of the snippet, each stripped, as the loop sees them
StrippedLines(code) ==
    LET code_lines == SplitOn(StripCode(code), "\n")
    IN  [i \in 1..Len(code_lines) |-> StripCode(code_lines[i])]

\* the line is the keyword alone or the keyword followed by white space
IsStatementOf(line, keyword) ==
    /\ StartsWith(line, keyword)
    /\ Len(line) > Len(keyword) => line[Len(keyword) + 1] \in CodeWhitespace

\* an empty line, a fence or language tag, an import or from statement
IsNoiseLine(line) ==
    \/ line = <<>>
    \/ StartsWith(line, FenceMark) \/ line = PythonTag \/ line = JsonTag
    \/ IsStatementOf(line, ImportWord) \/ IsStatementOf(line, FromWord)

\* C22: the text that is executed (before column-name repair) is made of
\* exactly the lines of the snippet that are not empty, not a fence or
\* language tag and not an import or from statement, in their order, joined
\* with '; ' when more than one is left
C22_CleaningExact ==
    (plot_code # <<>> /\ plot_code[1].kind = "str") =>
        JoinCleanLines(CleanLines(plot_code[1].items))
            = JoinCleanLines(SelectSeq(StrippedLines(plot_code[1].items),
                                       LAMBDA line : ~IsNoiseLine(line)))

(***************************************************************************)
(* Claims about the captured output and the standard output stream         *)
(***************************************************************************)
\* the snippet has a statement that calls print
CallsPrint ==
    /\ plot_code # <<>> /\ plot_code[1].kind = "str"
    /\ \E i \in 1..Len(Statements(PlotCleaned)) : Statements(PlotCleaned)[i] = PrintStmt

\* the text the statements of the snippet write to standard output, in order:
\* print('hi') writes hi and a newline, df.info() its report
RECURSIVE WrittenBy(_)
WrittenBy(stmts) ==
    IF stmts = <<>> THEN <<>>
    ELSE (IF Head(stmts) = PrintStmt THEN <<"h","i","\n">>
          ELSE IF Head(stmts) = InfoStmt THEN InfoText
          ELSE <<>>) \o WrittenBy(Tail(stmts))

\* every statement of the snippet, print aside, runs without raising and one
\* of them binds fig
RunsAsidePrint ==
    LET others == SelectSeq(Statements(PlotCleaned), LAMBDA stmt : stmt # PrintStmt)
        frame  == ExecStmts(Frame(plot_df), others)
    IN  /\ \A i \in 1..Len(Statements(PlotCleaned)) : Compiles(Statements(PlotCleaned)[i])
        /\ ~frame.raised
        /\ frame.has_fig

\* C23: when the snippet runs without error and binds fig, the text its
\* statements wrote (by print or otherwise) is the output component of the
\* result; on an error the output is the empty text
C23_OutputCaptured ==
    (plot_result # <<>> /\ plot_code[1].kind = "str") =>
        /\ RunsAsidePrint =>
              /\ plot_result[1].error = <<>>
              /\ plot_result[1].output = WrittenBy(Statements(PlotCleaned))
        /\ SnippetRaised => plot_result[1].output = <<>>

(***************************************************************************)
(* Claims about the dashboard response and the context text                *)
(***************************************************************************)
\* C24: every response with requires_dashboard set carries between 4 and 6
\* plot codes
C24_DashboardFourToSix ==
    \A k \in 1..Len(llm_log) :
        (~llm_log[k].raised /\ llm_log[k].response.requires_dashboard = TRUE) =>
            /\ Len(llm_log[k].response.plot_codes) >= 4
            /\ Len(llm_log[k].response.plot_codes) <= 6

\* C25: the columns the fallback recovers from the context text of the loaded
\* table are the table's canonical column names in order, and the numeric
\* columns it recovers are the table's numeric columns
C25_ContextRoundTrip ==
    \A k \in 1..Len(llm_log) :
        /\ extract_columns_from_context(llm_log[k].data_context) = self_df.columns
        /\ extract_numeric_columns_from_context(llm_log[k].data_context)
               = NumericColumnNames(self_df)

(***************************************************************************)
(* Claims about what a call of execute_plot_code leaves behind             *)
(***************************************************************************)
\* C26: after a call of execute_plot_code, whatever the snippet and however
\* the call ended, the session's table has the columns, names and cells it
\* had after the load
C26_TableUnchanged ==
    plot_result # <<>> =>
        /\ self_df = plot_df
        /\ self_df = DataProcessor(self_original_file).df

\* C27: after every call of execute_plot_code, however it ended, sys.stdout
\* is bound to the stream it was bound to before the call
C27_StdoutRestored ==
    plot_result # <<>> => sys_stdout = "terminal"

\* a snippet wrote to the capture buffer and then raised
C27_Witness ==
    /\ SnippetRaised
    /\ PlotFrame.output # <<>>
    /\ PlotFrame.stdout = CaptureBuffer
    /\ plot_result[1].error # <<>>
    /\ sys_stdout = "terminal"

(***************************************************************************)
(* Claims about the chat history                                           *)
(***************************************************************************)
\* entries alternate, the first one is the user's, the last one the assistant's
Alternates(history) ==
    /\ Len(history) % 2 = 0
    /\ \A i \in 1..Len(history) : history[i].is_user <=> (i % 2 = 1)

AskResponse == ask_result[1].response

\* the entry holds the positional snippet run in place of a failed one
IsFallbackEntry(entry) == entry.plot_info = <<"F","a","l","l","b","a","c","k"," ","v","i","s","u","a","l","i","z","a","t","i","o","n">>

\* what the data operation of the response comes to on the loaded table
DataOperationYields ==
    \E named_counts \in BOOLEAN :
        execute_data_query(self_df, AskResponse.data_operation, named_counts).kind # "none"

\* C29: one turn of process_user_query runs at most one plotting branch, by
\* the priority requires_dashboard, requires_multiple_plots, requires_plot:
\* the single plot_code is run exactly when it is set and neither higher flag
\* is; the loop over plot_codes belongs to the two higher flags; a positional
\* snippet stands in only in the dashboard branch and only for a snippet that
\* returned an error; the data result is there exactly when requires_data is
\* set and the operation yields one, whatever the plot flags
C29_OneBranchByPriority ==
    ask_result # <<>> =>
        /\ ~(ask_result[1].plot # <<>> /\ ask_result[1].multiple_plots # <<>>)
        /\ ask_result[1].plot # <<>> <=>
               /\ AskResponse.requires_plot /\ AskResponse.plot_code # <<>>
               /\ ~AskResponse.requires_dashboard
               /\ ~AskResponse.requires_multiple_plots
        /\ ask_result[1].multiple_plots # <<>> <=>
               /\ AskResponse.requires_dashboard \/ AskResponse.requires_multiple_plots
               /\ AskResponse.plot_codes # <<>>
        /\ ask_result[1].is_dashboard <=> AskResponse.requires_dashboard
        /\ \A k \in 1..Len(ask_result[1].multiple_plots) :
               IsFallbackEntry(ask_result[1].multiple_plots[k]) =>
                   /\ AskResponse.requires_dashboard
                   /\ ask_result[1].multiple_plots[k].plot_error # <<>>
        /\ \A k \in 1..Len(ask_result[1].plot) : ~IsFallbackEntry(ask_result[1].plot[k])
        /\ ask_result[1].has_data <=> (AskResponse.requires_data /\ DataOperationYields)

\* a reply that sets requires_plot and requires_multiple_plots: the single
\* snippet is not run
C29_Witness ==
    /\ ask_result # <<>>
    /\ AskResponse.requires_plot /\ AskResponse.plot_code # <<>>
    /\ AskResponse.requires_multiple_plots
    /\ ask_result[1].plot = <<>>
    /\ ask_result[1].multiple_plots = <<>>

(***************************************************************************)
(* Claims about fix_column_names_in_code                                   *)
(***************************************************************************)
\* the text execute_plot_code hands to fix_column_names_in_code (app.py:44)
RepairInput == JoinCleanLines(CleanLines(plot_code[1].items))

Repaired == fix_column_names_in_code(RepairInput, plot_df)

\* a column name of the table between two quotes of one kind
QuotedColumns ==
    { <<q>> \o plot_df.columns[k] \o <<q>> :
        q \in {SingleQuote, DoubleQuote}, k \in 1..Len(plot_df.columns) }

\* every quoted column name of the input stands at the same place in the
\* repaired text
KeepsQuotedColumns ==
    \A quoted \in QuotedColumns :
        StartsOf(RepairInput, quoted) \subseteq StartsOf(Repaired, quoted)

\* a second pass over the repaired text changes nothing
SecondPassIdle ==
    \E fixed \in {Repaired} : fix_column_names_in_code(fixed, plot_df) = fixed

\* C30: the repair of column names is idempotent, a second pass over the
\* repaired text changes nothing, and every quoted column name of the table
\* found in the text is still there, unchanged, in the repaired text
C30_RepairIdempotent ==
    (plot_result # <<>> /\ plot_code[1].kind = "str") =>
        /\ SecondPassIdle
        /\ KeepsQuotedColumns

\* C30 holds for the texts in which no two quoted names share a quote
C30_RepairIdempotentApart ==
    (plot_result # <<>> /\ plot_code[1].kind = "str" /\ ~SharesQuote) =>
        /\ SecondPassIdle
        /\ KeepsQuotedColumns

\* a text with a repaired reference and a reference that was right, whose
\* quotes are not shared
C30_RepairedApart ==
    /\ plot_result # <<>>
    /\ plot_code[1].kind = "str"
    /\ ~SharesQuote
    /\ \E text \in {RepairInput} :
           /\ Repaired # text
           /\ \E quoted \in QuotedColumns : StartsOf(text, quoted) # {}

====
